---- MODULE Spec2Model ----
(***************************************************************************)
(* A model of CreativElixir's retrieval layer (src/src/rag_system.py) and  *)
(* generation pipeline (src/src/script_generator.py, src/src/api_manager.py*)
(* and src/src/prompts.py).                                                *)
(*                                                                         *)
(* Text is a sequence of lexemes: single characters, and the keywords and  *)
(* markup tags the parser looks for, each as one atom.  A category, a      *)
(* query, a record content, a request field and a fragment are all texts.  *)
(***************************************************************************)
EXTENDS Integers, Sequences, FiniteSets, TLC

VARIABLES
    \* ---- RAGSystem (one instance and the directories it works on) ----
    use_faiss,        \* FAISS_AVAILABLE / self._use_faiss, fixed at import time
    emb_config,       \* what self._api_manager.load_config() offers for embeddings
    embedding_dim,    \* self._embedding_dim
    faiss_indices,    \* self._faiss_indices: category -> [d, vecs]
    faiss_metadata,   \* self._faiss_metadata: category -> sequence of records
    disk_indices,     \* <category>.faiss files under vector_db_path
    disk_metadata,    \* <category>_metadata.pkl files under vector_db_path
    files,            \* scripts_path/<category>/<id>.json, as a set of records
    next_id,          \* the uuid4 source: ids handed out so far
    last,             \* the last RAGSystem call and what it returned
    deleted,          \* history: ids for which delete_script returned True
    era,              \* history: category -> number of index (re)creations
    rec_era,          \* history: id -> era of its category when its vector was added
    \* ---- ScriptGenerator (one instance) and one call of generate ----
    review_api_manager,  \* was a review_api_manager passed to __init__
    gen_endpoint,     \* the endpoint behind api_manager
    rev_endpoint,     \* the endpoint behind review_api_manager
    run,              \* the run of generate
    twin,             \* the same run on a generator with a review manager
    \* ---- the output parser on its own ----
    parsing,          \* one call of parse_script_output or to_markdown_table
    \* ---- the knowledge base as a whole ----
    archive,          \* the zip file written by the last export_knowledge_base
    peer              \* a second RAGSystem on the same directories: its memory

rag_vars == <<use_faiss, emb_config, embedding_dim, faiss_indices, faiss_metadata,
              disk_indices, disk_metadata, files, next_id, last, deleted, era, rec_era>>

gen_vars == <<review_api_manager, gen_endpoint, rev_endpoint, run, twin>>

parse_vars == <<parsing>>

kb_vars == <<archive, peer>>

vars == <<rag_vars, gen_vars, parse_vars, kb_vars>>

-----------------------------------------------------------------------------
(* Bounds of the model. *)

MaxAdds == 2
MaxTopK == 2

-----------------------------------------------------------------------------
(* Text helpers: Python's str.lower, str.strip, str.split and `in`. *)

Whitespace == {" ", "\n"}

LowerChar(ch) ==
    CASE ch = "A" -> "a"
      [] ch = "B" -> "b"
      [] ch = "Design" -> "design"
      [] OTHER -> ch

Lower(t) == [i \in 1..Len(t) |-> LowerChar(t[i])]

RECURSIVE LStrip(_)
LStrip(t) ==
    IF t = <<>> THEN <<>>
    ELSE IF Head(t) \in Whitespace THEN LStrip(Tail(t)) ELSE t

RECURSIVE RStrip(_)
RStrip(t) ==
    IF t = <<>> THEN <<>>
    ELSE IF t[Len(t)] \in Whitespace THEN RStrip(SubSeq(t, 1, Len(t) - 1)) ELSE t

Strip(t) == RStrip(LStrip(t))

\* str.split() with no argument: maximal runs of non-whitespace characters.
RECURSIVE SplitFrom(_, _, _)
SplitFrom(t, cur, acc) ==
    IF t = <<>> THEN (IF cur = <<>> THEN acc ELSE Append(acc, cur))
    ELSE IF Head(t) \in Whitespace
         THEN SplitFrom(Tail(t), <<>>, IF cur = <<>> THEN acc ELSE Append(acc, cur))
         ELSE SplitFrom(Tail(t), Append(cur, Head(t)), acc)

Split(t) == SplitFrom(t, <<>>, <<>>)

\* `sub in t` for strings: sub occurs in t as a contiguous substring.
Contains(sub, t) ==
    \E i \in 1..(Len(t) + 1) :
        /\ i + Len(sub) - 1 <= Len(t)
        /\ SubSeq(t, i, i + Len(sub) - 1) = sub

SeqToSet(s) == {s[i] : i \in 1..Len(s)}

-----------------------------------------------------------------------------
(* The values the model draws its inputs from. *)

CatSLG == <<"S">>       \* a category of self._default_categories
CatOther == <<"X">>     \* a category outside the default list

DefaultCategories == {CatSLG}
Categories == {CatSLG, CatOther}

Contents == { <<"a", " ", "b">>, <<"A", "a">> }
Queries == { <<"B", " ", "a">>, <<"c">>, <<"B">> }
TopKs == {1, MaxTopK}

\* The embedding side of the configuration: no embedding model selected (no
\* API manager and no active config raise the same ValueError), or an
\* embedding model of dimension 1 or 2.
EmbConfigs == {"no_embedding_model", "dim1", "dim2"}

ConfigDim(cfg) == IF cfg = "dim1" THEN 1 ELSE 2

\* What the vendor-specific helper comes back with: a vector, or None (a
\* transport failure, a non-200 answer or an answer without a usable vector).
ProviderOutcomes == {"vector", "none"}

\* self._embedding_dim as set by __init__ (2048 in the source, scaled).
InitialEmbeddingDim == 2

-----------------------------------------------------------------------------
(* EmbeddingProvider *)

\* The vector the vendor returns for a text: one non-zero coordinate.
ProviderVector(text, d) ==
    LET axis == (Len(text) % d) + 1
        sign == IF Contains(<<"a">>, Lower(text)) THEN 1 ELSE -1
    IN  [i \in 1..d |-> IF i = axis THEN sign * (Len(text) + 1) ELSE 0]

Abs(n) == IF n < 0 THEN -n ELSE n

\* np.linalg.norm of a vector with at most one non-zero coordinate.
Norm(v) ==
    IF \E i \in 1..Len(v) : v[i] # 0
    THEN Abs(v[CHOOSE i \in 1..Len(v) : v[i] # 0])
    ELSE 0

\* _normalize_embedding: the vector divided by its norm when the norm is positive.
NormalizedVector(v) ==
    IF Norm(v) > 0 THEN [i \in 1..Len(v) |-> v[i] \div Norm(v)] ELSE v

\* _get_text_embedding: [ok |-> FALSE] stands for the ValueError it raises.
GetTextEmbedding(text, cfg, outcome) ==
    IF cfg = "no_embedding_model"
    THEN [ok |-> FALSE, vec |-> <<>>]
    ELSE IF outcome # "vector"
         THEN [ok |-> FALSE, vec |-> <<>>]
         ELSE [ok |-> TRUE, vec |-> NormalizedVector(ProviderVector(text, ConfigDim(cfg)))]

\* _normalize_embedding's side effect on self._embedding_dim: it runs only
\* when the vendor returned a vector, and sets the dimension to the vector's.
DimAfterEmbedding(dim, emb) == IF emb.ok THEN Len(emb.vec) ELSE dim

-----------------------------------------------------------------------------
(* VectorIndex *)

EmptyIndex(d) == [d |-> d, vecs |-> <<>>]

\* Python dict assignment d[k] = v.
Put(dict, k, v) == (k :> v) @@ dict

\* _init_faiss on empty directories: a fresh index for each default category.
InitFaissIndices == [c \in DefaultCategories |-> EmptyIndex(InitialEmbeddingDim)]
InitFaissMetadata == [c \in DefaultCategories |-> <<>>]

EmptyDict == [c \in {} |-> <<>>]

\* faiss.IndexFlatL2.add of one vector.
IndexAdd(index, vec) == [index EXCEPT !.vecs = Append(@, vec)]

\* index.ntotal
NTotal(index) == Len(index.vecs)

\* _ensure_faiss_index: a new, empty index when the category has none or its
\* dimension differs; the metadata list is created only when the category has none.
EnsureFaissIndex(indices, metadata, dim, category, d) ==
    IF category \notin DOMAIN indices \/ indices[category].d # d
    THEN [indices  |-> Put(indices, category, EmptyIndex(d)),
          metadata |-> IF category \notin DOMAIN metadata
                       THEN Put(metadata, category, <<>>)
                       ELSE metadata,
          dim      |-> d,
          created  |-> TRUE]
    ELSE [indices |-> indices, metadata |-> metadata, dim |-> dim, created |-> FALSE]

\* The record _add_to_faiss appends to the metadata list (id, content, category;
\* the ScriptMetadata fields play no part in what follows).
MetadataItem(script) ==
    [id |-> script.id, content |-> script.content, category |-> script.category]

\* _add_to_faiss that appends the metadata before it embeds, and keeps it
\* when the embedding fails.
AddToFaissMetadataFirst(indices, metadata, dim, script, cfg, outcome) ==
    LET emb == GetTextEmbedding(script.content, cfg, outcome)
        ens == EnsureFaissIndex(indices, metadata, Len(emb.vec), script.category, Len(emb.vec))
    IN  IF ~emb.ok
        THEN [indices |-> indices,
              metadata |-> IF script.category \in DOMAIN metadata
                           THEN [metadata EXCEPT ![script.category] =
                                     Append(@, MetadataItem(script))]
                           ELSE metadata,
              dim |-> dim, created |-> FALSE, added |-> FALSE]
        ELSE [indices  |-> [ens.indices EXCEPT ![script.category] = IndexAdd(@, emb.vec)],
              metadata |-> [ens.metadata EXCEPT ![script.category] =
                                Append(@, MetadataItem(script))],
              dim      |-> ens.dim,
              created  |-> ens.created,
              added    |-> TRUE]

\* _add_to_faiss up to the save: embed, ensure the index, add the vector,
\* append the metadata.  Any failure is caught and leaves both untouched.
\* (_normalize_embedding has set self._embedding_dim to the vector's length by
\* the time _ensure_faiss_index reads it.)
AddToFaiss(indices, metadata, dim, script, cfg, outcome) ==
    LET emb == GetTextEmbedding(script.content, cfg, outcome)
        ens == EnsureFaissIndex(indices, metadata, Len(emb.vec), script.category, Len(emb.vec))
    IN  IF ~emb.ok
        THEN [indices |-> indices, metadata |-> metadata, dim |-> dim,
              created |-> FALSE, added |-> FALSE]
        ELSE [indices  |-> [ens.indices EXCEPT ![script.category] = IndexAdd(@, emb.vec)],
              metadata |-> [ens.metadata EXCEPT ![script.category] =
                                Append(@, MetadataItem(script))],
              dim      |-> ens.dim,
              created  |-> ens.created,
              added    |-> TRUE]

\* Squared L2 distance, what IndexFlatL2 ranks by.
RECURSIVE SqDist(_, _)
SqDist(u, v) ==
    IF u = <<>> THEN 0
    ELSE (Head(u) - Head(v)) * (Head(u) - Head(v)) + SqDist(Tail(u), Tail(v))

Min(a, b) == IF a < b THEN a ELSE b

\* index.search(query, k): the positions of k nearest vectors, nearest first.
\* Positions are 1-based here (0-based in FAISS); equal distances may come
\* back in either order.
IndexSearch(index, qvec, k) ==
    LET n == NTotal(index)
        dist(p) == SqDist(index.vecs[p], qvec)
    IN  { s \in [1..k -> 1..n] :
            /\ \A i, j \in 1..k : i < j => s[i] # s[j] /\ dist(s[i]) <= dist(s[j])
            /\ \A p \in 1..n : (\A i \in 1..k : s[i] # p) => dist(s[k]) <= dist(p) }

\* The loop of _search_faiss over the returned positions: a position is kept
\* when the metadata list has an entry there.
RECURSIVE BuildResults(_, _)
BuildResults(positions, metadata_list) ==
    IF positions = <<>> THEN <<>>
    ELSE IF Head(positions) <= Len(metadata_list)
         THEN <<metadata_list[Head(positions)]>> \o BuildResults(Tail(positions), metadata_list)
         ELSE BuildResults(Tail(positions), metadata_list)

\* _search_faiss with the embedding of the query outside its try: a failed
\* embedding leaves it as an exception, which the one-record list stands for.
SearchFaissUncaught(indices, metadata, faiss_on, query, category, top_k, cfg, outcome) ==
    IF ~faiss_on \/ category \notin DOMAIN indices THEN { <<>> }
    ELSE LET emb == GetTextEmbedding(query, cfg, outcome)
             index == indices[category]
         IN  IF ~emb.ok THEN { <<[raised |-> TRUE]>> }
             ELSE IF NTotal(index) = 0 THEN { <<>> }
             ELSE IF Len(emb.vec) # index.d THEN { <<>> }
             ELSE { BuildResults(s, metadata[category]) :
                      s \in IndexSearch(index, emb.vec, Min(top_k, NTotal(index))) }

\* _search_faiss: the set of lists it can return.  An embedding failure and a
\* query of the wrong dimension (FAISS raises) are caught and give [].
SearchFaiss(indices, metadata, faiss_on, query, category, top_k, cfg, outcome) ==
    IF ~faiss_on \/ category \notin DOMAIN indices THEN { <<>> }
    ELSE LET emb == GetTextEmbedding(query, cfg, outcome)
             index == indices[category]
         IN  IF ~emb.ok THEN { <<>> }
             ELSE IF NTotal(index) = 0 THEN { <<>> }
             ELSE IF Len(emb.vec) # index.d THEN { <<>> }
             ELSE { BuildResults(s, metadata[category]) :
                      s \in IndexSearch(index, emb.vec, Min(top_k, NTotal(index))) }

\* _save_faiss_index that leaves an artifact that is already there.
SaveFaissIndexOnce(disk, mem, faiss_on, category) ==
    IF ~faiss_on \/ category \notin DOMAIN mem \/ category \in DOMAIN disk THEN disk
    ELSE Put(disk, category, mem[category])

\* _save_faiss_index: both artifacts of the category are written.
SaveFaissIndex(disk, mem, faiss_on, category) ==
    IF ~faiss_on \/ category \notin DOMAIN mem THEN disk
    ELSE Put(disk, category, mem[category])

-----------------------------------------------------------------------------
(* The file store and the keyword fallback *)

\* get_scripts_by_category: the records of the category's directory.
ScriptsOf(store, category) == {f \in store : f.category = category}

\* The orders in which glob can list a set of files.
Orderings(S) ==
    { s \in [1..Cardinality(S) -> S] : \A i, j \in 1..Cardinality(S) : i # j => s[i] # s[j] }

\* The score of _simple_search: the number of distinct query terms that occur
\* in the lower-cased content.
Score(query, content) ==
    Cardinality({term \in SeqToSet(Split(Lower(query))) : Contains(term, Lower(content))})

\* list.sort(key=score, reverse=True): stable, highest score first.
RECURSIVE InsertByScore(_, _, _)
InsertByScore(sorted, item, query) ==
    IF sorted = <<>> THEN <<item>>
    ELSE IF Score(query, Head(sorted).content) >= Score(query, item.content)
         THEN <<Head(sorted)>> \o InsertByScore(Tail(sorted), item, query)
         ELSE <<item>> \o sorted

RECURSIVE SortByScore(_, _)
SortByScore(list, query) ==
    IF list = <<>> THEN <<>>
    ELSE InsertByScore(SortByScore(SubSeq(list, 1, Len(list) - 1), query),
                       list[Len(list)], query)

Take(list, k) == SubSeq(list, 1, Min(k, Len(list)))

\* _simple_search without the test `if score > 0`.
SimpleSearchKeepingZero(listing, query, top_k) ==
    Take(SortByScore(listing, query), top_k)

\* _simple_search over the files as listed in `listing`.
SimpleSearch(listing, query, top_k) ==
    LET Scored(f) == Score(query, f.content) > 0
    IN  Take(SortByScore(SelectSeq(listing, Scored), query), top_k)

\* A search that trusts the vector path whenever it is switched on.
SearchResultNoFallback(vector_on, vec_result, fallback) ==
    IF vector_on THEN vec_result ELSE fallback

\* RAGSystem.search: the vector result when it is not empty, else the fallback.
SearchResult(vector_on, vec_result, fallback) ==
    IF vector_on /\ vec_result # <<>> THEN vec_result ELSE fallback

\* A delete that drops the oldest entry of the metadata list, whatever its id.
RemoveFromMetadataOldest(metadata_list, doc_id) ==
    IF metadata_list = <<>> THEN <<>> ELSE Tail(metadata_list)

\* A delete that forgets the metadata list.
RemoveFromMetadataNothing(metadata_list, doc_id) == metadata_list

\* The metadata list delete_script leaves behind.
RemoveFromMetadata(metadata_list, doc_id) ==
    LET Keep(item) == item.id # doc_id
    IN  SelectSeq(metadata_list, Keep)

-----------------------------------------------------------------------------
(* RAGSystem: the state after construction on empty directories *)

NoCall == [op |-> "none"]

RagInit ==
    /\ use_faiss \in BOOLEAN
    /\ emb_config \in EmbConfigs
    /\ embedding_dim = InitialEmbeddingDim
    /\ faiss_indices = IF use_faiss THEN InitFaissIndices ELSE EmptyDict
    /\ faiss_metadata = IF use_faiss THEN InitFaissMetadata ELSE EmptyDict
    /\ disk_indices = EmptyDict
    /\ disk_metadata = EmptyDict
    /\ files = {}
    /\ next_id = 0
    /\ last = NoCall
    /\ deleted = {}
    /\ era = [c \in Categories |-> 0]
    /\ rec_era = [i \in {} |-> 0]

\* An id that repeats: the first one ever issued.
NewDocIdRepeated(issued) == 1

\* str(uuid.uuid4()): an id that was not issued before (ids are numbered in
\* the order they are issued; `issued` is how many were).
NewDocId(issued) == issued + 1

(* RAGSystem.add_script, the limit-th call at most *)
AddScriptWithin(limit, content, category, outcome) ==
    /\ next_id < limit
    /\ LET doc_id == NewDocId(next_id)
           script == [id |-> doc_id, content |-> content, category |-> category]
           r == AddToFaiss(faiss_indices, faiss_metadata, embedding_dim,
                           script, emb_config, outcome)
       IN  /\ next_id' = doc_id
           /\ files' = files \cup {script}
           /\ IF use_faiss
              THEN /\ faiss_indices' = r.indices
                   /\ faiss_metadata' = r.metadata
                   /\ embedding_dim' = r.dim
                   /\ disk_indices' = IF r.added
                                      THEN SaveFaissIndex(disk_indices, r.indices, use_faiss, category)
                                      ELSE disk_indices
                   /\ disk_metadata' = IF r.added
                                       THEN SaveFaissIndex(disk_metadata, r.metadata, use_faiss, category)
                                       ELSE disk_metadata
                   /\ era' = IF r.created THEN [era EXCEPT ![category] = @ + 1] ELSE era
                   /\ rec_era' = IF r.added
                                 THEN Put(rec_era, doc_id, era'[category])
                                 ELSE rec_era
              ELSE UNCHANGED <<faiss_indices, faiss_metadata, embedding_dim,
                               disk_indices, disk_metadata, era, rec_era>>
           /\ last' = [op |-> "add", id |-> doc_id, category |-> category,
                       content |-> content, outcome |-> outcome, raised |-> FALSE,
                       indexed |-> use_faiss /\ r.added]
    /\ UNCHANGED <<use_faiss, emb_config, deleted>>

\* add_script while the library holds fewer than MaxAdds records.
AddScript(content, category, outcome) ==
    AddScriptWithin(MaxAdds, content, category, outcome)

(* RAGSystem.delete_script *)
DeleteScript(doc_id) ==
    LET found == {f \in files : f.id = doc_id}
    IN  IF found = {}
        THEN /\ last' = [op |-> "delete", id |-> doc_id, result |-> FALSE]
             /\ UNCHANGED <<use_faiss, emb_config, embedding_dim, faiss_indices,
                            faiss_metadata, disk_indices, disk_metadata, files,
                            next_id, deleted, era, rec_era>>
        ELSE LET category == (CHOOSE f \in found : TRUE).category
                 in_index == use_faiss /\ category \in DOMAIN faiss_indices
                 metadata == [faiss_metadata EXCEPT ![category] =
                                  RemoveFromMetadata(@, doc_id)]
             IN  /\ faiss_metadata' = IF in_index THEN metadata ELSE faiss_metadata
                 /\ disk_indices' = IF in_index
                                    THEN SaveFaissIndex(disk_indices, faiss_indices, use_faiss, category)
                                    ELSE disk_indices
                 /\ disk_metadata' = IF in_index
                                     THEN SaveFaissIndex(disk_metadata, metadata, use_faiss, category)
                                     ELSE disk_metadata
                 /\ files' = files \ found
                 /\ deleted' = deleted \cup {doc_id}
                 /\ last' = [op |-> "delete", id |-> doc_id, result |-> TRUE]
                 /\ UNCHANGED <<use_faiss, emb_config, embedding_dim, faiss_indices,
                                next_id, era, rec_era>>

(* RAGSystem.search *)
Search(query, category, top_k, outcome) ==
    \E vec_result \in SearchFaiss(faiss_indices, faiss_metadata, use_faiss,
                                  query, category, top_k, emb_config, outcome) :
    \E listing \in Orderings(ScriptsOf(files, category)) :
        LET embedded == use_faiss /\ category \in DOMAIN faiss_indices
            emb == GetTextEmbedding(query, emb_config, outcome)
            fallback == SimpleSearch(listing, query, top_k)
        IN  /\ embedding_dim' = IF embedded THEN DimAfterEmbedding(embedding_dim, emb)
                                ELSE embedding_dim
            /\ last' = [op |-> "search", query |-> query, category |-> category,
                        top_k |-> top_k, outcome |-> outcome, raised |-> FALSE,
                        vector |-> vec_result,
                        result |-> SearchResult(use_faiss, vec_result, fallback)]
            /\ UNCHANGED <<use_faiss, emb_config, faiss_indices, faiss_metadata,
                           disk_indices, disk_metadata, files, next_id, deleted,
                           era, rec_era>>

(* RAGSystem.update_api_manager / a switch of the active configuration *)
UpdateApiManager(cfg) ==
    /\ cfg # emb_config
    /\ emb_config' = cfg
    /\ last' = [op |-> "configure"]
    /\ UNCHANGED <<use_faiss, embedding_dim, faiss_indices, faiss_metadata,
                   disk_indices, disk_metadata, files, next_id, deleted, era, rec_era>>

\* An operation of the RAGSystem leaves a ScriptGenerator as it is.
RagNext ==
    \/ \E content \in Contents, category \in Categories, outcome \in ProviderOutcomes :
           AddScript(content, category, outcome) /\ UNCHANGED <<gen_vars, parse_vars, kb_vars>>
    \/ \E doc_id \in 1..MaxAdds : DeleteScript(doc_id) /\ UNCHANGED <<gen_vars, parse_vars, kb_vars>>
    \/ \E query \in Queries, category \in Categories, top_k \in TopKs,
          outcome \in ProviderOutcomes :
           Search(query, category, top_k, outcome) /\ UNCHANGED <<gen_vars, parse_vars, kb_vars>>
    \/ \E cfg \in EmbConfigs : UpdateApiManager(cfg) /\ UNCHANGED <<gen_vars, parse_vars, kb_vars>>

-----------------------------------------------------------------------------
(* script_generator.py: ScriptOutput, _clean_html_tags and the lexemes the  *)
(* parsing strategies look for.  The Chinese keywords and the full-width    *)
(* semicolon are written as ASCII atoms: "fenjing" (storyboard), "koubo"    *)
(* (voiceover), "sheji" (design), "yitu" (intent), "shejiyitu" (design      *)
(* intent), "huamian" (picture), "wenan" (copy), "pangbai" (narration),     *)
(* "cuowu" (error) and ";" for the full-width semicolon.                    *)

MaxOf(S) == CHOOSE x \in S : \A y \in S : y <= x
MinOf(S) == CHOOSE x \in S : \A y \in S : x <= y

\* str.split(sep): the pieces between the separators, empty pieces included.
RECURSIVE SplitOnFrom(_, _, _, _)
SplitOnFrom(t, sep, cur, acc) ==
    IF t = <<>> THEN Append(acc, cur)
    ELSE IF Head(t) = sep
         THEN SplitOnFrom(Tail(t), sep, <<>>, Append(acc, cur))
         ELSE SplitOnFrom(Tail(t), sep, Append(cur, Head(t)), acc)

SplitOn(t, sep) == SplitOnFrom(t, sep, <<>>, <<>>)

\* [c.strip() for c in line.split(sep) if c.strip()]
Cells(line, sep) ==
    LET parts == SplitOn(line, sep)
        stripped == [i \in 1..Len(parts) |-> Strip(parts[i])]
        NonEmpty(c) == c # <<>>
    IN SelectSeq(stripped, NonEmpty)

\* text.strip().split('\n')
Lines(text) == SplitOn(Strip(text), "\n")

\* `kw in text` for a keyword: a lexeme of the text spells it or contains it.
LexemeContains(lexeme, kw) ==
    \/ lexeme = kw
    \/ lexeme = "shejiyitu" /\ kw \in {"sheji", "yitu"}

HasWord(text, words) ==
    \E i \in 1..Len(text) : \E kw \in words : LexemeContains(text[i], kw)

ScriptOutput(storyboard, voiceover, design_intent, raw_content) ==
    [storyboard |-> storyboard, voiceover |-> voiceover,
     design_intent |-> design_intent, raw_content |-> raw_content]

IsValid(output) ==
    /\ output.storyboard # <<>>
    /\ output.voiceover # <<>>
    /\ output.design_intent # <<>>
    /\ Len(output.storyboard) = Len(output.voiceover)
    /\ Len(output.voiceover) = Len(output.design_intent)

\* Optional[ScriptOutput] as returned by the strategies.
NoOutput == [none |-> TRUE]
SomeOutput(output) == [none |-> FALSE, value |-> output]

\* `result and result.is_valid()`
Accepted(result) == ~result.none /\ IsValid(result.value)

BrTag == "<br>"
OtherTags == {"<p>", "</p>", "<div>", "</div>", "<span>", "<b>", "<BR>"}
Semicolon == ";"

RECURSIVE CollapseSemicolons(_)
CollapseSemicolons(t) ==
    IF Len(t) < 2 THEN t
    ELSE IF t[1] = Semicolon /\ t[2] = Semicolon
         THEN CollapseSemicolons(Tail(t))
         ELSE <<Head(t)>> \o CollapseSemicolons(Tail(t))

\* re.sub(r'^\s*；\s*', '', t)
DropLeadingSemicolon(t) ==
    LET u == LStrip(t)
    IN IF u # <<>> /\ Head(u) = Semicolon THEN LStrip(Tail(u)) ELSE t

\* re.sub(r'\s*；\s*$', '', t)
DropTrailingSemicolon(t) ==
    LET u == RStrip(t)
    IN IF u # <<>> /\ u[Len(u)] = Semicolon
       THEN RStrip(SubSeq(u, 1, Len(u) - 1))
       ELSE t

CleanHtmlTags(text) ==
    IF text = <<>> THEN text
    ELSE LET br == [i \in 1..Len(text) |->
                       IF text[i] = BrTag THEN Semicolon ELSE text[i]]
             NotTag(x) == x \notin OtherTags
             untagged == SelectSeq(br, NotTag)
         IN Strip(DropTrailingSemicolon(DropLeadingSemicolon(
                CollapseSemicolons(untagged))))

-----------------------------------------------------------------------------
(* script_generator.py: _parse_markdown_table and _parse_delimiter_format *)

HeaderKeywords == {"fenjing", "koubo", "sheji", "huamian", "wenan", "yitu",
                   "storyboard", "voiceover", "design"}

IsTableHeader(line) == HasWord(Lower(line), HeaderKeywords)

\* re.match(r'^[\|\-\:\s]+$', stripped)
IsSeparatorLine(stripped) ==
    /\ stripped # <<>>
    /\ \A i \in 1..Len(stripped) : stripped[i] \in {"|", "-", ":"} \cup Whitespace

RECURSIVE TableLinesFrom(_, _, _)
TableLinesFrom(lines, in_table, acc) ==
    IF lines = <<>> THEN acc
    ELSE LET stripped == Strip(Head(lines))
         IN IF "|" \notin SeqToSet(stripped)
            THEN TableLinesFrom(Tail(lines), in_table, acc)
            ELSE IF IsSeparatorLine(stripped)
            THEN TableLinesFrom(Tail(lines), TRUE, acc)
            ELSE IF in_table \/ IsTableHeader(stripped)
            THEN TableLinesFrom(Tail(lines), TRUE, Append(acc, stripped))
            ELSE TableLinesFrom(Tail(lines), in_table, acc)

IsStoryboardCell(cell) ==
    HasWord(cell, {"fenjing", "huamian"}) \/ HasWord(Lower(cell), {"storyboard"})

IsVoiceoverCell(cell) ==
    \/ HasWord(cell, {"koubo", "wenan", "pangbai"})
    \/ HasWord(Lower(cell), {"voiceover"})

IsDesignCell(cell) ==
    HasWord(cell, {"sheji", "yitu"}) \/ HasWord(Lower(cell), {"design", "intent"})

\* The column indices found by the header loop (1-based, 0 for "not found"):
\* a later cell of the same role overrides an earlier one.
HeaderIndices(header_cells) ==
    LET Last(S) == IF S = {} THEN 0 ELSE MaxOf(S)
        all == 1..Len(header_cells)
    IN [storyboard |-> Last({i \in all : IsStoryboardCell(header_cells[i])}),
        voiceover |-> Last({i \in all : /\ ~IsStoryboardCell(header_cells[i])
                                        /\ IsVoiceoverCell(header_cells[i])}),
        design |-> Last({i \in all : /\ ~IsStoryboardCell(header_cells[i])
                                     /\ ~IsVoiceoverCell(header_cells[i])
                                     /\ IsDesignCell(header_cells[i])})]

\* cells[idx] if idx < len(cells) else ""
CellAt(cells, idx) == IF idx <= Len(cells) THEN cells[idx] ELSE <<>>

\* The three columns read off the rows that have at least three cells.
Columns(rows, sb, vo, de, raw) ==
    ScriptOutput([i \in 1..Len(rows) |-> CleanHtmlTags(CellAt(rows[i], sb))],
                 [i \in 1..Len(rows) |-> CleanHtmlTags(CellAt(rows[i], vo))],
                 [i \in 1..Len(rows) |-> CleanHtmlTags(CellAt(rows[i], de))],
                 raw)

AtLeastThree(cells) == Len(cells) >= 3

ParseMarkdownTable(text) ==
    LET table_lines == TableLinesFrom(Lines(text), FALSE, <<>>)
    IN IF Len(table_lines) < 2 THEN NoOutput
       ELSE
       LET header_cells == Cells(table_lines[1], "|")
           found == HeaderIndices(header_cells)
           missing == 0 \in {found.storyboard, found.voiceover, found.design}
           idx == IF missing
                  THEN [storyboard |-> 1, voiceover |-> 2, design |-> 3]
                  ELSE found
           data == Tail(table_lines)
           rows == SelectSeq([i \in 1..Len(data) |-> Cells(data[i], "|")],
                             AtLeastThree)
       IN IF missing /\ Len(header_cells) < 3 THEN NoOutput
          ELSE IF rows = <<>> THEN NoOutput
          ELSE SomeOutput(Columns(rows, idx.storyboard, idx.voiceover,
                                  idx.design, text))

\* The cells a line contributes to the delimiter format, <<>> if none.
DelimiterParts(stripped) ==
    LET bar == Cells(stripped, "|")
        slash == Cells(stripped, "/")
    IN IF stripped = <<>> \/ IsTableHeader(stripped) THEN <<>>
       ELSE IF "|" \in SeqToSet(stripped) /\ Len(bar) >= 3 THEN bar
       ELSE IF "/" \in SeqToSet(stripped) /\ Len(slash) >= 3 THEN slash
       ELSE <<>>

ParseDelimiterFormat(text) ==
    LET lines == Lines(text)
        rows == SelectSeq([i \in 1..Len(lines) |-> DelimiterParts(Strip(lines[i]))],
                          AtLeastThree)
    IN IF rows = <<>> THEN NoOutput
       ELSE SomeOutput(Columns(rows, 1, 2, 3, text))

-----------------------------------------------------------------------------
(* script_generator.py: _parse_tag_format, _parse_numbered_format and       *)
(* parse_script_output                                                      *)

Colons == {":"}
Digits == {"0", "1", "2", "3", "4", "5", "6", "7", "8", "9"}
NumberMarks == {"."}

\* The position of the last lexeme of the run without "[" that starts at j.
RunEnd(t, j) ==
    MaxOf({r \in (j - 1)..Len(t) : \A x \in j..r : t[x] # "["})

\* What r'\[name\][:：]?\s*([^\[]+?)(?=\[|$)' captures for the tag that
\* starts at i, stripped; [matched |-> FALSE] if the pattern fails there.
TagCapture(t, i, name) ==
    IF ~(i + 2 <= Len(t) /\ t[i] = "[" /\ t[i + 1] = name /\ t[i + 2] = "]")
    THEN [matched |-> FALSE]
    ELSE LET rest == SubSeq(t, i + 3, RunEnd(t, i + 3))
         IN IF rest = <<>> THEN [matched |-> FALSE]
            ELSE IF Head(rest) \in Colons /\ Len(rest) > 1
            THEN [matched |-> TRUE, text |-> Strip(Tail(rest))]
            ELSE [matched |-> TRUE, text |-> Strip(rest)]

\* re.findall for one tag, each capture stripped.
TagMatches(t, name) ==
    LET all == [i \in 1..Len(t) |-> TagCapture(t, i, name)]
        Matched(c) == c.matched
        hits == SelectSeq(all, Matched)
    IN [i \in 1..Len(hits) |-> hits[i].text]

\* [_clean_html_tags(m.strip()) for m in matches if m.strip()]
CleanedMatches(matches) ==
    LET NonEmpty(m) == m # <<>>
        kept == SelectSeq(matches, NonEmpty)
    IN [i \in 1..Len(kept) |-> CleanHtmlTags(kept[i])]

ParseTagFormat(text) ==
    LET storyboard_matches == TagMatches(text, "fenjing")
        voiceover_matches == TagMatches(text, "koubo")
        design_matches == TagMatches(text, "shejiyitu")
        storyboard == CleanedMatches(storyboard_matches)
        voiceover == CleanedMatches(voiceover_matches)
        design_intent == CleanedMatches(design_matches)
        min_len == Min(Len(storyboard), Min(Len(voiceover), Len(design_intent)))
    IN IF storyboard_matches = <<>> \/ voiceover_matches = <<>>
          \/ design_matches = <<>>
       THEN NoOutput
       ELSE IF min_len = 0 THEN NoOutput
       ELSE SomeOutput(ScriptOutput(SubSeq(storyboard, 1, min_len),
                                    SubSeq(voiceover, 1, min_len),
                                    SubSeq(design_intent, 1, min_len), text))

\* hi, hi-1, ..., lo
DescRange(hi, lo) == [i \in 1..(hi - lo + 1) |-> hi - i + 1]

MinOrZero(S) == IF S = {} THEN 0 ELSE MinOf(S)

AtOrZero(positions, i) == IF i = 0 THEN 0 ELSE positions[i]

\* The first element of a sequence of positions that passes the test, else 0.
FirstWhere(positions, Test(_)) ==
    AtOrZero(positions, MinOrZero({i \in 1..Len(positions) : Test(positions[i])}))

\* How many whitespace lexemes start at s.
WsRun(t, s) ==
    MaxOf({k \in 0..(Len(t) + 1 - s) : \A x \in s..(s + k - 1) : t[x] \in Whitespace})

\* Where the next group can start after a label at l followed by r'[:：]?\s*',
\* in the order the regex engine tries them: colon taken before not taken,
\* more whitespace before less.
AfterLabel(t, l) ==
    IF l + 1 <= Len(t) /\ t[l + 1] \in Colons
    THEN DescRange(l + 2 + WsRun(t, l + 2), l + 2) \o <<l + 1>>
    ELSE DescRange(l + 1 + WsRun(t, l + 1), l + 1)

\* The last digit of the run of digits that starts at p.
DigitsEnd(t, p) ==
    MaxOf({q \in p..Len(t) : \A x \in p..q : t[x] \in Digits})

\* r'\d+[\.、]' matches at p.
NumberAt(t, p) ==
    /\ p <= Len(t)
    /\ t[p] \in Digits
    /\ DigitsEnd(t, p) + 1 <= Len(t)
    /\ t[DigitsEnd(t, p) + 1] \in NumberMarks

\* r'(?=\d+[\.、]|$)' holds after position e.
GroupMayEndAt(t, e) ==
    \/ NumberAt(t, e + 1)
    \/ e = Len(t)
    \/ e = Len(t) - 1 /\ t[Len(t)] = "\n"

\* The numbered pattern with its groups found the way the engine finds them:
\* each lazy group as short as the rest of the pattern allows.  A group
\* starts at the first of the candidate positions from which the rest of the
\* pattern can still match (0 if there is none).
DesignStart(t, u) ==
    LET InText(s) == s <= Len(t)
    IN FirstWhere(AfterLabel(t, u), InText)

DesignLabelAt(t, s3) ==
    MinOrZero({u \in (s3 + 1)..Len(t) : t[u] = "shejiyitu" /\ DesignStart(t, u) # 0})

VoiceoverStart(t, k) ==
    LET Feasible(s) == DesignLabelAt(t, s) # 0
    IN FirstWhere(AfterLabel(t, k), Feasible)

VoiceoverLabelAt(t, s2) ==
    MinOrZero({k \in (s2 + 1)..Len(t) : t[k] = "koubo" /\ VoiceoverStart(t, k) # 0})

\* The candidates after r'\d+[\.、]\s*(?:分镜[:：]?\s*)?' with w lexemes of
\* whitespace taken, then with fewer.
RECURSIVE StoryboardStarts(_, _, _)
StoryboardStarts(t, dot, w) ==
    (IF dot + 1 + w <= Len(t) /\ t[dot + 1 + w] = "fenjing"
     THEN AfterLabel(t, dot + 1 + w) \o <<dot + 1 + w>>
     ELSE <<dot + 1 + w>>)
        \o (IF w = 0 THEN <<>> ELSE StoryboardStarts(t, dot, w - 1))

StoryboardStart(t, dot) ==
    LET Feasible(s) == VoiceoverLabelAt(t, s) # 0
    IN FirstWhere(StoryboardStarts(t, dot, WsRun(t, dot + 1)), Feasible)

NoMatch == [matched |-> FALSE]

MatchEndingAt(t, s2, k, s3, u, s4, e) ==
    [matched |-> TRUE,
     storyboard |-> SubSeq(t, s2, k - 1),
     voiceover |-> SubSeq(t, s3, u - 1),
     design_intent |-> SubSeq(t, s4, e),
     end |-> e]

MatchFromDesign(t, s2, k, s3, u, s4) ==
    MatchEndingAt(t, s2, k, s3, u, s4,
                  MinOf({x \in s4..Len(t) : GroupMayEndAt(t, x)}))

MatchFromDesignLabel(t, s2, k, s3, u) ==
    MatchFromDesign(t, s2, k, s3, u, DesignStart(t, u))

MatchFromVoiceover(t, s2, k, s3) ==
    MatchFromDesignLabel(t, s2, k, s3, DesignLabelAt(t, s3))

MatchFromVoiceoverLabel(t, s2, k) ==
    MatchFromVoiceover(t, s2, k, VoiceoverStart(t, k))

MatchFromStoryboard(t, s2) ==
    IF s2 = 0 THEN NoMatch
    ELSE MatchFromVoiceoverLabel(t, s2, VoiceoverLabelAt(t, s2))

\* The numbered pattern tried at p.
NumberedMatchAt(t, p) ==
    IF ~NumberAt(t, p) THEN NoMatch
    ELSE MatchFromStoryboard(t, StoryboardStart(t, DigitsEnd(t, p) + 1))

\* re.findall: leftmost matches, each search resuming where the last ended.
RECURSIVE NumberedMatches(_, _)

MatchThenRest(t, m) == <<m>> \o NumberedMatches(t, m.end + 1)

MatchesStartingAt(t, p) ==
    IF p = 0 THEN <<>> ELSE MatchThenRest(t, NumberedMatchAt(t, p))

NumberedMatches(t, from) ==
    MatchesStartingAt(t, MinOrZero({p \in from..Len(t) : NumberedMatchAt(t, p).matched}))

NumberedColumns(matches, text) ==
    IF matches = <<>> THEN NoOutput
    ELSE SomeOutput(ScriptOutput(
             [i \in 1..Len(matches) |-> CleanHtmlTags(Strip(matches[i].storyboard))],
             [i \in 1..Len(matches) |-> CleanHtmlTags(Strip(matches[i].voiceover))],
             [i \in 1..Len(matches) |-> CleanHtmlTags(Strip(matches[i].design_intent))],
             text))

ParseNumberedFormat(text) == NumberedColumns(NumberedMatches(text, 1), text)

\* parse_script_output run on the stripped text instead of the text.
ParseScriptOutputOfStripped(raw_script) ==
    LET text == Strip(raw_script)
        table_result == ParseMarkdownTable(text)
        delimiter_result == ParseDelimiterFormat(text)
        tag_result == ParseTagFormat(text)
        numbered_result == ParseNumberedFormat(text)
    IN IF text = <<>>
       THEN ScriptOutput(<<>>, <<>>, <<>>, text)
       ELSE IF Accepted(table_result) THEN table_result.value
       ELSE IF Accepted(delimiter_result) THEN delimiter_result.value
       ELSE IF Accepted(tag_result) THEN tag_result.value
       ELSE IF Accepted(numbered_result) THEN numbered_result.value
       ELSE ScriptOutput(<<>>, <<>>, <<>>, text)

\* parse_script_output with the delimiter strategy tried before the table.
ParseScriptOutputDelimiterFirst(raw_script) ==
    LET table_result == ParseMarkdownTable(raw_script)
        delimiter_result == ParseDelimiterFormat(raw_script)
        tag_result == ParseTagFormat(raw_script)
        numbered_result == ParseNumberedFormat(raw_script)
    IN IF raw_script = <<>> \/ Strip(raw_script) = <<>>
       THEN ScriptOutput(<<>>, <<>>, <<>>, raw_script)
       ELSE IF Accepted(delimiter_result) THEN delimiter_result.value
       ELSE IF Accepted(table_result) THEN table_result.value
       ELSE IF Accepted(tag_result) THEN tag_result.value
       ELSE IF Accepted(numbered_result) THEN numbered_result.value
       ELSE ScriptOutput(<<>>, <<>>, <<>>, raw_script)

ParseScriptOutput(raw_script) ==
    LET table_result == ParseMarkdownTable(raw_script)
        delimiter_result == ParseDelimiterFormat(raw_script)
        tag_result == ParseTagFormat(raw_script)
        numbered_result == ParseNumberedFormat(raw_script)
    IN IF raw_script = <<>> \/ Strip(raw_script) = <<>>
       THEN ScriptOutput(<<>>, <<>>, <<>>, raw_script)
       ELSE IF Accepted(table_result) THEN table_result.value
       ELSE IF Accepted(delimiter_result) THEN delimiter_result.value
       ELSE IF Accepted(tag_result) THEN tag_result.value
       ELSE IF Accepted(numbered_result) THEN numbered_result.value
       ELSE ScriptOutput(<<>>, <<>>, <<>>, raw_script)

-----------------------------------------------------------------------------
(* script_generator.py: GenerationInput, and what a run of generate leaves  *)
(* behind.  A run is a record: where the generator is suspended (pc), its   *)
(* local buffers, and the log of what it did in the order it did it: the    *)
(* fragments it yielded, the GenerationSteps it reported to on_step and the *)
(* model calls it issued.  `emitted` keeps what stream_chat yielded, stage  *)
(* by stage, and `exception` the origin of an exception that left generate. *)

MaxChunks == 2

ThemeMagic == <<"T">>          \* a key of THEME_TRAITS
GameplayIdle == <<"G">>        \* a key of GAMEPLAY_TRAITS

\* The GenerationInputs: each required field empty, whitespace only or
\* filled; the optional fields absent or keys of the trait tables.
Requests ==
    LET GameIntros == { <<>>, <<" ">>, <<"a">> }
        Usps == { <<>>, <<" ">>, <<"b">> }
        TargetAudiences == { <<>>, <<" ">>, <<"a">> }
        RequestCategories == { <<>>, <<" ">>, CatSLG, CatOther }
        OptionalFields == { [theme |-> <<>>, gameplay |-> <<>>],
                            [theme |-> ThemeMagic, gameplay |-> GameplayIdle] }
    IN { [game_intro |-> g, usp |-> u, target_audience |-> a, category |-> c,
          theme |-> o.theme, gameplay |-> o.gameplay] :
           g \in GameIntros, u \in Usps, a \in TargetAudiences,
           c \in RequestCategories, o \in OptionalFields }

\* What the endpoint of an APIManager is like when stream_chat is called: no
\* active configuration, a configuration get_llm_client makes no client of,
\* or a usable one.
EndpointStates == {"unconfigured", "no_client", "ok"}

\* The fragments a model streams: a table of one row (header, separator
\* line, row), and a further row with a line break tag in its first cell.
ChunkTexts ==
    LET TableChunk == <<"|", "fenjing", "|", "koubo", "|", "shejiyitu", "|", "\n",
                        "|", "-", "|", "-", "|", "-", "|", "\n",
                        "|", "b", "|", "a", "|", "b", "|", "\n">>
        RowChunk == <<"|", "a", "<br>", "b", "|", "b", "|", "a", "|", "\n">>
    IN {TableChunk, RowChunk}

\* What the next item of the response stream is: a fragment, the end of the
\* stream, or an exception of the transport.
Pulls ==
    {[kind |-> "chunk", text |-> c] : c \in ChunkTexts}
        \cup {[kind |-> "end", text |-> <<>>], [kind |-> "raise", text |-> <<>>]}

\* PromptManager.get_custom_prompt: None (no manager registered, nothing
\* stored), or an exception (the registered manager has no get_prompt; the
\* stored template fails in str.format with other than a KeyError).
CustomPrompts == {"none", "raises"}

\* rag_system.get_comprehensive_traits: returns, or raises.
LookupOutcomes == {"returns", "raises"}

\* GenerationInput.validate without the strip.
ValidateUnstripped(input) ==
    IF input.game_intro = <<>> THEN [ok |-> FALSE, msg |-> <<"game_intro">>]
    ELSE IF input.usp = <<>> THEN [ok |-> FALSE, msg |-> <<"usp">>]
    ELSE IF input.target_audience = <<>>
    THEN [ok |-> FALSE, msg |-> <<"target_audience">>]
    ELSE IF input.category = <<>> THEN [ok |-> FALSE, msg |-> <<"category">>]
    ELSE [ok |-> TRUE, msg |-> <<>>]

\* GenerationInput.validate: the message names the first field that is empty
\* or blank.
Validate(input) ==
    LET Blank(t) == t = <<>> \/ Strip(t) = <<>>
    IN IF Blank(input.game_intro) THEN [ok |-> FALSE, msg |-> <<"game_intro">>]
       ELSE IF Blank(input.usp) THEN [ok |-> FALSE, msg |-> <<"usp">>]
       ELSE IF Blank(input.target_audience)
       THEN [ok |-> FALSE, msg |-> <<"target_audience">>]
       ELSE IF Blank(input.category) THEN [ok |-> FALSE, msg |-> <<"category">>]
       ELSE [ok |-> TRUE, msg |-> <<>>]

ErrorLabel == <<"[", "cuowu", "]">>
ReviewMark == <<"[", "REVIEW", "]">>

NoInput == [game_intro |-> <<>>, usp |-> <<>>, target_audience |-> <<>>,
            category |-> <<>>, theme |-> <<>>, gameplay |-> <<>>]

NoPrompt == [template |-> "", script |-> <<>>, review_feedback |-> <<>>,
             references |-> <<>>, rag_traits |-> <<>>]

At(step, at) == [step |-> step, at |-> at]

IdleRun ==
    [pc |-> At("idle", ""), input |-> NoInput, log |-> <<>>, references |-> <<>>,
     draft_content |-> <<>>, review_feedback |-> <<>>, final_content |-> <<>>,
     api |-> "", chat |-> "", chunks |-> 0, failures |-> {}, lookup |-> "",
     exception |-> "", emitted |-> <<>>,
     output |-> NoOutput]

\* yield text: a fragment of generate's own (api is ""), or one that the
\* endpoint `api` produced.
Forward(r, step, api, text) ==
    [r EXCEPT !.log = Append(@, [kind |-> "fragment", step |-> step,
                                 status |-> "", text |-> text, api |-> api,
                                 prompt |-> NoPrompt])]

Emit(r, step, text) == Forward(r, step, "", text)

\* on_step(GenerationStep(step_name, status, content))
OnStep(r, step_name, status, content) ==
    [r EXCEPT !.log = Append(@, [kind |-> "event", step |-> step_name,
                                 status |-> status, text |-> content, api |-> "",
                                 prompt |-> NoPrompt])]

\* api.stream_chat([{"role": "user", "content": prompt}])
IssueCall(r, api, prompt) ==
    [r EXCEPT !.api = api, !.chat = "new",
              !.log = Append(@, [kind |-> "call", step |-> r.pc.step,
                                 status |-> "", text |-> <<>>, api |-> api,
                                 prompt |-> prompt])]

\* The exception of `origin` leaves the generator: the consumer's next()
\* raises it.
Raise(r, origin) ==
    [r EXCEPT !.pc = At("raised", r.pc.step), !.exception = origin]

Fragments(r) ==
    LET IsFragment(e) == e.kind = "fragment" IN SelectSeq(r.log, IsFragment)
Events(r) ==
    LET IsEvent(e) == e.kind = "event" IN SelectSeq(r.log, IsEvent)
Calls(r) ==
    LET IsCall(e) == e.kind = "call" IN SelectSeq(r.log, IsCall)

-----------------------------------------------------------------------------
(* rag_system.py: the trait tables; prompts.py: the prompts of the stages; *)
(* api_manager.py: stream_chat                                              *)

DefaultKey == <<"DEFAULT">>

HIGH_PERFORMING_TRAITS ==
    (CatSLG :> <<"traits-of-SLG">>) @@ (DefaultKey :> <<"traits-of-DEFAULT">>)

THEME_TRAITS == (ThemeMagic :> <<"traits-of-theme-T">>)

GAMEPLAY_TRAITS == (GameplayIdle :> <<"traits-of-gameplay-G">>)

GetHighPerformingTraits(category) ==
    IF category \in DOMAIN HIGH_PERFORMING_TRAITS
    THEN HIGH_PERFORMING_TRAITS[category]
    ELSE HIGH_PERFORMING_TRAITS[DefaultKey]

\* The part a theme or a gameplay adds: nothing for None, "" or an unknown key.
OptionalTraits(table, key) ==
    IF key # <<>> /\ key \in DOMAIN table
    THEN <<"\n", "\n">> \o key \o <<"\n">> \o table[key] \o <<"\n">>
    ELSE <<>>

GetComprehensiveTraits(category, theme, gameplay) ==
    GetHighPerformingTraits(category)
        \o OptionalTraits(THEME_TRAITS, theme)
        \o OptionalTraits(GAMEPLAY_TRAITS, gameplay)

\* The except branch of _review_script with `rag_traits = None` in it.
CriteriaWithoutDefault(input, lookup) ==
    IF lookup = "raises" THEN <<>>
    ELSE GetComprehensiveTraits(input.category, input.theme, input.gameplay)

\* Step 1 of _review_script: the comprehensive traits, and the DEFAULT
\* traits if the lookup raises.
Criteria(input, lookup) ==
    IF lookup = "raises" THEN HIGH_PERFORMING_TRAITS[DefaultKey]
    ELSE GetComprehensiveTraits(input.category, input.theme, input.gameplay)

\* rag_system.search(..., top_k=3) as called by _search_references
ReferencesTopK == 3

\* f"{game_intro} {usp} {target_audience}"
ReferenceQuery(input) ==
    input.game_intro \o <<" ">> \o input.usp \o <<" ">> \o input.target_audience

DigitOf(n) == CASE n = 0 -> "0" [] n = 1 -> "1" [] n = 2 -> "2" [] OTHER -> "3"

RECURSIVE FormatReferencesFrom(_, _)
FormatReferencesFrom(references, i) ==
    IF i > Len(references) THEN <<>>
    ELSE (IF i > 1 THEN <<"\n">> ELSE <<>>)
         \o <<"#", DigitOf(i), "\n">> \o references[i].content \o <<"\n">>
         \o FormatReferencesFrom(references, i + 1)

FormatReferences(references) ==
    IF references = <<>> THEN <<"no-references">>
    ELSE FormatReferencesFrom(references, 1)

\* CATEGORY_PROMPTS has a template of its own for some categories.
CATEGORY_PROMPTS == {CatSLG}

GetDraftPrompt(input, references_text) ==
    [NoPrompt EXCEPT
        !.template = IF input.category \in CATEGORY_PROMPTS
                     THEN "category" ELSE "draft",
        !.references = references_text]

\* rag_traits or "（暂无高转化特征数据）"
GetReviewPrompt(input, script, rag_traits) ==
    [NoPrompt EXCEPT
        !.template = "review",
        !.script = script,
        !.rag_traits = IF rag_traits = <<>> THEN <<"no-traits">> ELSE rag_traits]

GetRefinePrompt(input, script, review_feedback) ==
    [NoPrompt EXCEPT
        !.template = "refine",
        !.script = script,
        !.review_feedback = review_feedback]

Yield(text, failed) ==
    [kind |-> "yield", text |-> text, failed |-> failed,
     chat |-> IF failed THEN "failed" ELSE "open"]
Stop == [kind |-> "stop", text |-> <<>>, failed |-> FALSE, chat |-> "failed"]
Raised == [kind |-> "raise", text |-> <<>>, failed |-> TRUE, chat |-> "failed"]

\* A stream_chat that lets the failure out instead of yielding it.
StreamChatRaising(endpoint, chat, pull) ==
    IF chat = "failed" THEN Stop
    ELSE IF endpoint # "ok" THEN Raised
    ELSE IF pull.kind = "chunk" THEN Yield(pull.text, FALSE)
    ELSE IF pull.kind = "raise" THEN Raised
    ELSE Stop

\* The next item of APIManager.stream_chat: `chat` is "new" before the first
\* item, "open" while the response streams, "failed" once an error fragment
\* has been yielded.
StreamChat(endpoint, chat, pull) ==
    IF chat = "failed" THEN Stop
    ELSE IF endpoint = "unconfigured"
    THEN Yield(ErrorLabel \o <<" ", "no-api-configured">>, TRUE)
    ELSE IF endpoint = "no_client"
    THEN Yield(ErrorLabel \o <<" ", "no-api-client">>, TRUE)
    ELSE IF pull.kind = "chunk" THEN Yield(pull.text, FALSE)
    ELSE IF pull.kind = "raise"
    THEN Yield(ErrorLabel \o <<" ", "transport-error">>, TRUE)
    ELSE Stop

-----------------------------------------------------------------------------
(* script_generator.py: ScriptGenerator.generate, from one yield to the     *)
(* next                                                                     *)

\* A generate that revises straight after the draft.
FollowingStepWithoutReview(step) ==
    IF step = "rag_search" THEN "draft" ELSE "refine"

\* The stage generate enters after the one it has completed.
FollowingStep(step) ==
    CASE step = "rag_search" -> "draft"
      [] step = "draft" -> "review"
      [] OTHER -> "refine"

StatusText(step) ==
    CASE step = "rag_search" -> <<"searching-references">>
      [] step = "draft" -> <<"writing-draft">>
      [] step = "review" -> <<"reviewing">>
      [] OTHER -> <<"refining">>

\* generate up to its first yield: the validation, then either the error
\* fragment or the announcement of the retrieval.
GenerateFirst(r, input_data) ==
    LET v == Validate(input_data)
    IN IF ~v.ok
       THEN Emit([r EXCEPT !.input = input_data, !.pc = At("invalid", "")],
                 "invalid", ErrorLabel \o <<" ">> \o v.msg)
       ELSE Emit(OnStep([r EXCEPT !.input = input_data,
                                  !.pc = At("rag_search", "announced")],
                        "rag_search", "running", StatusText("rag_search")),
                 "rag_search", StatusText("rag_search") \o <<"\n", "\n">>)

\* return ScriptOutput(raw_content=f"[错误] {error_msg}")
ReturnInvalid(r) ==
    [r EXCEPT !.pc = At("done", ""),
              !.output = SomeOutput(ScriptOutput(<<>>, <<>>, <<>>,
                             ErrorLabel \o <<" ">> \o Validate(r.input).msg))]

\* The references are in: report them and yield their number.
Retrieved(r, references) ==
    LET found == <<"found", DigitOf(Len(references))>>
    IN Emit(OnStep([r EXCEPT !.references = references,
                             !.pc = At("rag_search", "completed")],
                   "rag_search", "completed", found),
            "rag_search", found \o <<"\n", "\n">>)

\* on_step(running) and the announcement of the next stage.
BeginStage(r) ==
    LET step == FollowingStep(r.pc.step)
    IN Emit(OnStep([r EXCEPT !.pc = At(step, "announced")],
                   step, "running", StatusText(step)),
            step, StatusText(step) \o <<"\n", "\n">>)

BufferOf(r, step) ==
    CASE step = "draft" -> r.draft_content
      [] step = "review" -> r.review_feedback
      [] OTHER -> r.final_content

\* Buffers that keep the last fragment only.
AppendToBufferLast(r, step, text) ==
    CASE step = "draft" -> [r EXCEPT !.draft_content = text]
      [] step = "review" -> [r EXCEPT !.review_feedback = text]
      [] OTHER -> [r EXCEPT !.final_content = text]

\* draft_content += chunk, review_feedback += chunk, final_content += chunk
AppendToBuffer(r, step, text) ==
    CASE step = "draft" -> [r EXCEPT !.draft_content = @ \o text]
      [] step = "review" -> [r EXCEPT !.review_feedback = @ \o text]
      [] OTHER -> [r EXCEPT !.final_content = @ \o text]

\* yield chunk, and yield f"[REVIEW]{chunk}" in the review
Forwarded(step, text) == IF step = "review" THEN ReviewMark \o text ELSE text

\* The loop of a stage is over: on_step(completed) and the closing fragment.
Completed(r) ==
    LET step == r.pc.step
    IN Emit(OnStep([r EXCEPT !.pc = At(step, "completed")],
                   step, "completed", BufferOf(r, step)),
            step, IF step = "refine" THEN <<"\n", "\n", "finished", "\n">>
                  ELSE <<"\n", "\n">>)

\* One turn of `for chunk in <stage>(...)`: the next item of stream_chat is
\* appended and forwarded, or ends the loop.  An exception out of stream_chat
\* is caught in _review_script only.
Pull(r, generator, pull) ==
    LET step == r.pc.step
        item == StreamChat(generator.status[r.api], r.chat, pull)
        text == IF item.kind = "raise"
                THEN ErrorLabel \o <<" ", "review-interrupted">>
                ELSE item.text
        failures == IF item.failed THEN r.failures \cup {step} ELSE r.failures
    IN IF item.kind = "stop" THEN Completed(r)
       ELSE IF item.kind = "raise" /\ step # "review"
       THEN Raise([r EXCEPT !.failures = failures], "stream_chat")
       ELSE Forward([AppendToBuffer(r, step, text) EXCEPT
                        !.pc = At(step, "streaming"),
                        !.chat = item.chat,
                        !.chunks = IF item.failed THEN @ ELSE @ + 1,
                        !.emitted = IF item.kind = "yield"
                                    THEN Append(@, [step |-> step, text |-> item.text])
                                    ELSE @,
                        !.failures = failures],
                    step, r.api, Forwarded(step, text))

\* _generate_draft up to its first item
GenerateDraft(r, generator, custom, pull) ==
    IF custom = "raises" THEN Raise(r, "get_custom_prompt")
    ELSE Pull(IssueCall(r, "gen",
                        GetDraftPrompt(r.input, FormatReferences(r.references))),
              generator, pull)

\* _review_script up to its first item
ReviewScript(r, generator, lookup, custom, pull) ==
    IF custom = "raises"
    THEN Raise([r EXCEPT !.lookup = lookup], "get_custom_prompt")
    ELSE Pull(IssueCall([r EXCEPT !.lookup = lookup], generator.rev_api,
                        GetReviewPrompt(r.input, r.draft_content,
                                        Criteria(r.input, lookup))),
              generator, pull)

\* _refine_script up to its first item
RefineScript(r, generator, custom, pull) ==
    IF custom = "raises" THEN Raise(r, "get_custom_prompt")
    ELSE Pull(IssueCall(r, "gen",
                        GetRefinePrompt(r.input, r.draft_content,
                                        r.review_feedback)),
              generator, pull)

\* A generate that parses the draft.
FinishOnDraft(r) ==
    [r EXCEPT !.pc = At("done", ""),
              !.output = SomeOutput(ParseScriptOutput(r.draft_content))]

\* output = parse_script_output(final_content); return output
Finish(r) ==
    [r EXCEPT !.pc = At("done", ""),
              !.output = SomeOutput(ParseScriptOutput(r.final_content))]

\* A constructor that uses the generation manager for the review always.
RevApiIgnored(supplied) == "gen"

\* self.rev_api = review_api_manager if review_api_manager else api_manager
RevApi(supplied) == IF supplied THEN "rev" ELSE "gen"

\* The ScriptGenerator under observation.
Generator ==
    [rev_api |-> RevApi(review_api_manager),
     status |-> [gen |-> gen_endpoint, rev |-> rev_endpoint]]

\* A ScriptGenerator over the same generation manager whose review manager
\* is supplied and answers as the review endpoint of Generator does.
TwinGenerator ==
    [rev_api |-> RevApi(TRUE),
     status |-> [gen |-> gen_endpoint,
                 rev |-> IF review_api_manager THEN rev_endpoint
                         ELSE gen_endpoint]]

\* The items the response stream may deliver next: at most MaxChunks
\* fragments in a run.
PullsFor(r) == {p \in Pulls : p.kind = "chunk" => r.chunks < MaxChunks}

-----------------------------------------------------------------------------
(* The consumer of generate: each action is one next() on the generator.    *)
(* `twin` is the same request with the same answers of the endpoints, run   *)
(* on TwinGenerator.                                                        *)

construction == <<review_api_manager, gen_endpoint, rev_endpoint>>

\* A record an earlier process left in scripts_path.
StoredScript == [id |-> 1, content |-> <<"a", " ", "b">>, category |-> CatSLG]

\* No call of the parser.
NoParse == [op |-> "none"]

\* No archive was exported, and no second RAGSystem runs on the directories.
NoArchive == [written |-> FALSE]
NoPeer == [running |-> FALSE]
KbIdle == archive = NoArchive /\ peer = NoPeer

\* No run of generate.
GenIdle ==
    /\ review_api_manager = FALSE
    /\ gen_endpoint = "ok"
    /\ rev_endpoint = "ok"
    /\ run = IdleRun
    /\ twin = IdleRun

\* A ScriptGenerator over a RAGSystem without a vector backend, whose
\* scripts_path is empty or holds one record.
GenInit ==
    /\ use_faiss = FALSE
    /\ emb_config = "no_embedding_model"
    /\ embedding_dim = InitialEmbeddingDim
    /\ faiss_indices = EmptyDict
    /\ faiss_metadata = EmptyDict
    /\ disk_indices = EmptyDict
    /\ disk_metadata = EmptyDict
    /\ files \in {{}, {StoredScript}}
    /\ next_id = 0
    /\ last = NoCall
    /\ deleted = {}
    /\ era = [c \in Categories |-> 0]
    /\ rec_era = [i \in {} |-> 0]
    /\ review_api_manager \in BOOLEAN
    /\ gen_endpoint \in EndpointStates
    /\ rev_endpoint \in (IF review_api_manager THEN EndpointStates
                         ELSE {gen_endpoint})
    /\ run = IdleRun
    /\ twin = IdleRun
    /\ parsing = NoParse
    /\ KbIdle

(* generate(input_data, on_step) and the first next() *)
Generate(input_data) ==
    /\ run.pc.step = "idle"
    /\ run' = GenerateFirst(run, input_data)
    /\ twin' = GenerateFirst(twin, input_data)
    /\ UNCHANGED <<rag_vars, construction, parse_vars, kb_vars>>

(* next() after the error fragment of an invalid request *)
ResumeAfterError ==
    /\ run.pc.step = "invalid"
    /\ run' = ReturnInvalid(run)
    /\ twin' = ReturnInvalid(twin)
    /\ UNCHANGED <<rag_vars, construction, parse_vars, kb_vars>>

(* next() after the announcement of the retrieval: _search_references *)
ResumeAtSearch ==
    /\ run.pc = At("rag_search", "announced")
    /\ \E outcome \in (IF use_faiss THEN ProviderOutcomes ELSE {"none"}) :
           Search(ReferenceQuery(run.input), run.input.category,
                  ReferencesTopK, outcome)
    /\ run' = Retrieved(run, last'.result)
    /\ twin' = Retrieved(twin, last'.result)
    /\ UNCHANGED <<construction, parse_vars, kb_vars>>

(* next() after the closing fragment of a stage *)
ResumeAtStageEnd ==
    /\ run.pc.at = "completed"
    /\ run.pc.step \in {"rag_search", "draft", "review"}
    /\ run' = BeginStage(run)
    /\ twin' = BeginStage(twin)
    /\ UNCHANGED <<rag_vars, construction, parse_vars, kb_vars>>

(* next() after the announcement of the draft *)
ResumeAtDraft(custom, pull) ==
    /\ run.pc = At("draft", "announced")
    /\ pull \in PullsFor(run)
    /\ run' = GenerateDraft(run, Generator, custom, pull)
    /\ twin' = GenerateDraft(twin, TwinGenerator, custom, pull)
    /\ UNCHANGED <<rag_vars, construction, parse_vars, kb_vars>>

(* next() after the announcement of the review *)
ResumeAtReview(lookup, custom, pull) ==
    /\ run.pc = At("review", "announced")
    /\ pull \in PullsFor(run)
    /\ run' = ReviewScript(run, Generator, lookup, custom, pull)
    /\ twin' = ReviewScript(twin, TwinGenerator, lookup, custom, pull)
    /\ UNCHANGED <<rag_vars, construction, parse_vars, kb_vars>>

(* next() after the announcement of the revision *)
ResumeAtRefine(custom, pull) ==
    /\ run.pc = At("refine", "announced")
    /\ pull \in PullsFor(run)
    /\ run' = RefineScript(run, Generator, custom, pull)
    /\ twin' = RefineScript(twin, TwinGenerator, custom, pull)
    /\ UNCHANGED <<rag_vars, construction, parse_vars, kb_vars>>

(* next() after a fragment of a model *)
ResumeInStream(pull) ==
    /\ run.pc.at = "streaming"
    /\ pull \in PullsFor(run)
    /\ run' = Pull(run, Generator, pull)
    /\ twin' = Pull(twin, TwinGenerator, pull)
    /\ UNCHANGED <<rag_vars, construction, parse_vars, kb_vars>>

(* next() after the last fragment: StopIteration carries the ScriptOutput *)
ResumeAtEnd ==
    /\ run.pc = At("refine", "completed")
    /\ run' = Finish(run)
    /\ twin' = Finish(twin)
    /\ UNCHANGED <<rag_vars, construction, parse_vars, kb_vars>>

GenNext ==
    \/ \E input_data \in Requests : Generate(input_data)
    \/ ResumeAfterError
    \/ ResumeAtSearch
    \/ ResumeAtStageEnd
    \/ \E custom \in CustomPrompts, pull \in Pulls : ResumeAtDraft(custom, pull)
    \/ \E lookup \in LookupOutcomes, custom \in CustomPrompts, pull \in Pulls :
           ResumeAtReview(lookup, custom, pull)
    \/ \E custom \in CustomPrompts, pull \in Pulls : ResumeAtRefine(custom, pull)
    \/ \E pull \in Pulls : ResumeInStream(pull)
    \/ ResumeAtEnd

SpecGen == GenInit /\ [][GenNext]_vars

\* The retrieval layer on its own: no run of generate is under way.
RagOnlyInit == RagInit /\ GenIdle /\ parsing = NoParse /\ KbIdle

SpecRag == RagOnlyInit /\ [][RagNext]_vars

-----------------------------------------------------------------------------
(* Claims about the retrieval layer, checked under SpecRag *)

IdsOf(list) == {list[i].id : i \in 1..Len(list)}

\* C2: after delete_script(id) returned True, no vector search (_search_faiss)
\* of any category returns a record with that id, whatever adds, deletes,
\* searches and configuration changes happened since.
C2_DeletedNeverSurfaced ==
    last.op = "search" => IdsOf(last.vector) \cap deleted = {}

\* C2 witness: a vector search that returned records from a category whose
\* index still holds the vector of a deleted record.
C2_Witness ==
    /\ last.op = "search"
    /\ last.vector # <<>>
    /\ deleted \cap DOMAIN rec_era # {}
    /\ NTotal(faiss_indices[last.category]) > Len(faiss_metadata[last.category])

\* C3: after an add under dimension D1 and an add under D2 # D1 to the same
\* category, a vector search of the category returns only records whose vector
\* was added since the index was last recreated, and nothing raises.
C3_OnlyCurrentEraReturned ==
    /\ last.op \in {"add", "search"} => ~last.raised
    /\ last.op = "search" =>
           \A i \in 1..Len(last.vector) :
               rec_era[last.vector[i].id] = era[last.category]

\* C4: for every category the index holds as many vectors as the metadata list
\* has entries, in memory and in the persisted pair of artifacts.
C4_LengthSynchronized ==
    /\ \A c \in DOMAIN faiss_indices :
           NTotal(faiss_indices[c]) = Len(faiss_metadata[c])
    /\ \A c \in DOMAIN disk_indices :
           NTotal(disk_indices[c]) = Len(disk_metadata[c])

\* The lists the keyword fallback can return in the current state.
FallbackResults(query, category, top_k) ==
    { SimpleSearch(listing, query, top_k) :
        listing \in Orderings(ScriptsOf(files, category)) }

\* The vector path of the last search was unavailable, had no embedding
\* configuration, failed while embedding or searching, or found nothing.
VectorPathGaveNothing ==
    \/ ~use_faiss
    \/ emb_config = "no_embedding_model"
    \/ last.outcome # "vector"
    \/ last.vector = <<>>

\* C5: search never raises, and whenever the vector path is unavailable,
\* unconfigured, failing or empty, search returns what the keyword fallback
\* returns for the same query, category and top_k.
C5_SearchFallsBack ==
    last.op = "search" =>
        /\ ~last.raised
        /\ VectorPathGaveNothing =>
               last.result \in FallbackResults(last.query, last.category, last.top_k)

\* C5 witness: the vector path is on but the embedding failed, and the search
\* still returned a record.
C5_Witness ==
    /\ last.op = "search"
    /\ use_faiss
    /\ last.outcome = "none"
    /\ NTotal(faiss_indices[CatSLG]) > 0
    /\ last.category = CatSLG
    /\ last.result # <<>>

-----------------------------------------------------------------------------
(* Claims about the generation pipeline, checked under SpecGen *)

StageRank(step) ==
    CASE step = "rag_search" -> 1
      [] step = "draft" -> 2
      [] step = "review" -> 3
      [] step = "refine" -> 4
      [] OTHER -> 0

IsPrefix(a, b) == Len(a) <= Len(b) /\ SubSeq(b, 1, Len(a)) = a

\* The GenerationSteps of a complete run, as <<step_name, status>>.
AllEvents ==
    << <<"rag_search", "running">>, <<"rag_search", "completed">>,
       <<"draft", "running">>, <<"draft", "completed">>,
       <<"review", "running">>, <<"review", "completed">>,
       <<"refine", "running">>, <<"refine", "completed">> >>

AllCalls == <<"draft", "review", "refine">>

EventsSeen(r) == [i \in 1..Len(Events(r)) |-> <<Events(r)[i].step, Events(r)[i].status>>]

CallsSeen(r) == [i \in 1..Len(Calls(r)) |-> Calls(r)[i].step]

\* The concatenation of what the model of a stage streamed before log
\* position n, as forwarded to the consumer.
RECURSIVE Streamed(_, _, _)
Streamed(r, step, n) ==
    IF n = 0 THEN <<>>
    ELSE Streamed(r, step, n - 1)
         \o (IF r.log[n].kind = "fragment" /\ r.log[n].step = step /\ r.log[n].api # ""
             THEN r.log[n].text ELSE <<>>)

StageCompletedBefore(r, step, n) ==
    \E j \in 1..n : /\ r.log[j].kind = "event"
                    /\ r.log[j].step = step
                    /\ r.log[j].status = "completed"

\* C1: for a valid request, fragments, GenerationSteps and model calls come
\* stage by stage in the order retrieve, draft, critique, revise, each stage
\* once; a model call is issued only after the stage before it has reported
\* completion, the critique call carries the whole draft buffer, which is
\* everything the draft model streamed; and the terminal value is there only
\* after the revise stage has completed, when every stage has run once.
C1_StagesSequential ==
    (run.pc.step \notin {"idle", "invalid"} /\ Validate(run.input).ok) =>
        /\ \A i, j \in 1..Len(run.log) :
               i < j => StageRank(run.log[i].step) <= StageRank(run.log[j].step)
        /\ IsPrefix(EventsSeen(run), AllEvents)
        /\ IsPrefix(CallsSeen(run), AllCalls)
        /\ \A i \in 1..Len(run.log) :
               run.log[i].kind = "call" =>
                   /\ run.log[i].step = "draft" => StageCompletedBefore(run, "rag_search", i)
                   /\ run.log[i].step = "review" =>
                          /\ StageCompletedBefore(run, "draft", i)
                          /\ run.log[i].prompt.script = Streamed(run, "draft", i)
                          /\ run.log[i].prompt.script = Streamed(run, "draft", Len(run.log))
                   /\ run.log[i].step = "refine" =>
                          /\ StageCompletedBefore(run, "review", i)
                          /\ run.log[i].prompt.script = Streamed(run, "draft", Len(run.log))
        /\ run.output # NoOutput =>
               /\ StageCompletedBefore(run, "refine", Len(run.log))
               /\ EventsSeen(run) = AllEvents
               /\ CallsSeen(run) = AllCalls

\* C1 witness: a valid request has run to its terminal value, and both the
\* draft and the critique model streamed a fragment.
C1_Witness ==
    /\ run.pc.step = "done"
    /\ Validate(run.input).ok
    /\ run.failures = {}
    /\ run.draft_content # <<>>
    /\ run.review_feedback # <<>>

\* A fragment of the model of `step` that carries the error label, behind
\* the review mark in the review.
ErrorFragmentOf(r, step) ==
    \E i \in 1..Len(r.log) :
        /\ r.log[i].kind = "fragment"
        /\ r.log[i].step = step
        /\ r.log[i].api # ""
        /\ IsPrefix(IF step = "review" THEN ReviewMark \o ErrorLabel ELSE ErrorLabel,
                    r.log[i].text)

\* C6: a model call that fails (no configuration, no client, an exception of
\* the transport) shows as a fragment with the error label in the stream of
\* its stage; stream_chat raises nothing into the consumer; the stage is
\* completed after the error fragment and a run that ends has a terminal
\* value.
C6_ModelFailureIsLabelledText ==
    /\ \A step \in run.failures :
           /\ ErrorFragmentOf(run, step)
           /\ run.pc # At(step, "streaming") =>
                  StageCompletedBefore(run, step, Len(run.log))
    /\ run.exception # "stream_chat"
    /\ run.pc.step = "raised" => run.pc.at \notin run.failures
    /\ run.pc.step = "done" => run.output # NoOutput

\* C6 witness: the draft and the revision fail in the transport of a usable
\* endpoint, the review fails for want of a client, and the run has ended
\* with its terminal value.
C6_Witness ==
    /\ gen_endpoint = "ok"
    /\ rev_endpoint = "no_client"
    /\ run.pc.step = "done"
    /\ run.failures = {"draft", "review", "refine"}
    /\ run.output # NoOutput

\* C7: a stage that ends in an error the generator cannot recover from is
\* reported as a GenerationStep of that stage with status failed.
C7_FailureIsReported ==
    run.pc.step = "raised" =>
        \E i \in 1..Len(run.log) :
            /\ run.log[i].kind = "event"
            /\ run.log[i].step = run.pc.at
            /\ run.log[i].status = "failed"

RequiredFields == {"game_intro", "usp", "target_audience", "category"}

\* A required field of the request is empty or whitespace only.
HasBlankField(input) ==
    \E f \in RequiredFields : \A i \in 1..Len(input[f]) : input[f][i] \in Whitespace

\* C8: a request with an empty or whitespace-only required field is answered
\* without a retrieval, a model call or a GenerationStep: one fragment with
\* the error label, then a terminal value whose three sequences are empty.
C8_BlankRequestStopsEarly ==
    (run.pc.step # "idle" /\ HasBlankField(run.input)) =>
        /\ last = NoCall
        /\ Calls(run) = <<>>
        /\ Events(run) = <<>>
        /\ Len(Fragments(run)) = 1
        /\ IsPrefix(ErrorLabel, Fragments(run)[1].text)
        /\ run.pc.step \in {"invalid", "done"}
        /\ run.pc.step = "done" =>
               /\ run.output # NoOutput
               /\ run.output.value.storyboard = <<>>
               /\ run.output.value.voiceover = <<>>
               /\ run.output.value.design_intent = <<>>

\* C8 witness: the category alone is whitespace, and the run has ended.
C8_Witness ==
    /\ run.pc.step = "done"
    /\ run.input.category = <<" ">>
    /\ run.input.game_intro = <<"a">>
    /\ run.input.usp = <<"b">>
    /\ run.input.target_audience = <<"a">>

FragmentTexts(r) == [i \in 1..Len(Fragments(r)) |-> Fragments(r)[i].text]

CallsTo(r, step) ==
    {r.log[i].api : i \in {j \in 1..Len(r.log) : /\ r.log[j].kind = "call"
                                                  /\ r.log[j].step = step}}

\* C9: the draft and the revision are asked of the generation manager only;
\* the review is asked of the review manager only, which is the generation
\* manager when none was supplied; and a generator without a review manager
\* yields the fragments and the terminal value of a generator whose review
\* manager answers as the generation manager does.
C9_CallsGoToTheirEndpoint ==
    /\ CallsTo(run, "draft") \subseteq {"gen"}
    /\ CallsTo(run, "refine") \subseteq {"gen"}
    /\ CallsTo(run, "review")
           \subseteq {IF review_api_manager THEN "rev" ELSE "gen"}
    /\ ~review_api_manager =>
           /\ CallsTo(twin, "review") \subseteq {"rev"}
           /\ twin.pc = run.pc
           /\ FragmentTexts(twin) = FragmentTexts(run)
           /\ twin.output = run.output

\* C9 witness: no review manager was supplied, the three calls were issued,
\* the review streamed a fragment and the run has ended.
C9_Witness ==
    /\ ~review_api_manager
    /\ run.pc.step = "done"
    /\ Len(Calls(run)) = 3
    /\ CallsTo(twin, "review") = {"rev"}
    /\ run.review_feedback # <<>>
    /\ run.failures = {}

\* The traits text kept for a category, the DEFAULT text for any other.
CategoryTraits(category) ==
    IF category = CatSLG THEN <<"traits-of-SLG">> ELSE <<"traits-of-DEFAULT">>

ReviewPrompts(r) ==
    {r.log[i].prompt : i \in {j \in 1..Len(r.log) : /\ r.log[j].kind = "call"
                                                     /\ r.log[j].step = "review"}}

-----------------------------------------------------------------------------
(* The terminal value and the stage buffers *)

\* The concatenation of the first n fragments stream_chat yielded, those of
\* `step` only.
RECURSIVE EmittedText(_, _, _)
EmittedText(r, step, n) ==
    IF n = 0 THEN <<>>
    ELSE EmittedText(r, step, n - 1)
         \o (IF r.emitted[n].step = step THEN r.emitted[n].text ELSE <<>>)

EmittedBy(r, step) == EmittedText(r, step, Len(r.emitted))

RECURSIVE Concat(_)
Concat(texts) == IF texts = <<>> THEN <<>> ELSE Head(texts) \o Concat(Tail(texts))

\* A three-column table with the keyword header, the separator line and n
\* data rows.
IsTableOfRows(text, n) ==
    LET head == <<"|", "fenjing", "|", "koubo", "|", "shejiyitu", "|", "\n",
                  "|", "-", "|", "-", "|", "-", "|", "\n">>
        rows == { <<"|", "b", "|", "a", "|", "b", "|", "\n">>,
                  <<"|", "a", "<br>", "b", "|", "b", "|", "a", "|", "\n">> }
    IN \E chosen \in [1..n -> rows] : text = head \o Concat(chosen)

\* C11: the terminal value of a run that went through its stages is the
\* parse of what the revise model streamed, and of nothing else; when that
\* text is a well-formed three-column table of n data rows, the terminal
\* value has three sequences of length n.
C11_TerminalIsParseOfRevision ==
    (run.pc.step = "done" /\ ~HasBlankField(run.input)) =>
        LET revised == EmittedBy(run, "refine")
        IN /\ run.output # NoOutput
           /\ run.output.value = ParseScriptOutput(revised)
           /\ run.output.value.raw_content = revised
           /\ \A n \in 1..MaxChunks :
                  IsTableOfRows(revised, n) =>
                      /\ Len(run.output.value.storyboard) = n
                      /\ Len(run.output.value.voiceover) = n
                      /\ Len(run.output.value.design_intent) = n

\* C11 witness: the revise model streamed a table of two rows and the run
\* ended with two scenes.
C11_Witness ==
    /\ run.pc.step = "done"
    /\ IsTableOfRows(EmittedBy(run, "refine"), 2)
    /\ Len(run.output.value.storyboard) = 2

\* The texts of the fragments of a stage's model as the consumer got them.
ForwardedTexts(r, step) ==
    LET FromModel(e) == e.kind = "fragment" /\ e.step = step /\ e.api # ""
        got == SelectSeq(r.log, FromModel)
    IN [i \in 1..Len(got) |-> got[i].text]

\* The texts of the fragments stream_chat yielded in a stage.
EmittedTexts(r, step) ==
    LET OfStep(e) == e.step = step
        got == SelectSeq(r.emitted, OfStep)
    IN [i \in 1..Len(got) |-> got[i].text]

\* Every buffer is the concatenation of what its stage's model yielded, and
\* is what the next stages and the parser are handed.
BuffersAreConcatenations(r) ==
    /\ r.draft_content = Concat(EmittedTexts(r, "draft"))
    /\ r.review_feedback = Concat(EmittedTexts(r, "review"))
    /\ r.final_content = Concat(EmittedTexts(r, "refine"))
    /\ \A i \in 1..Len(r.log) :
           r.log[i].kind = "call" =>
               /\ r.log[i].step = "review" =>
                      r.log[i].prompt.script = Concat(EmittedTexts(r, "draft"))
               /\ r.log[i].step = "refine" =>
                      /\ r.log[i].prompt.script = Concat(EmittedTexts(r, "draft"))
                      /\ r.log[i].prompt.review_feedback
                             = Concat(EmittedTexts(r, "review"))
    /\ r.output # NoOutput /\ ~HasBlankField(r.input) =>
           r.output.value.raw_content = Concat(EmittedTexts(r, "refine"))

\* C12 as stated: in every stage the consumer gets the fragments the model
\* yielded, unchanged and in order, and the buffers are their concatenation.
C12_ForwardedAreEmitted ==
    /\ \A step \in {"draft", "review", "refine"} :
           ForwardedTexts(run, step) = EmittedTexts(run, step)
    /\ BuffersAreConcatenations(run)

\* C12 amended: the consumer gets one fragment for each fragment the model
\* yielded, in order: the fragment itself in the draft and the revision, the
\* fragment behind the mark [REVIEW] in the critique; the buffers are the
\* concatenation of the fragments without the mark.
C12_ForwardedFollowEmitted ==
    /\ ForwardedTexts(run, "draft") = EmittedTexts(run, "draft")
    /\ ForwardedTexts(run, "refine") = EmittedTexts(run, "refine")
    /\ Len(ForwardedTexts(run, "review")) = Len(EmittedTexts(run, "review"))
    /\ \A i \in 1..Len(EmittedTexts(run, "review")) :
           ForwardedTexts(run, "review")[i]
               = <<"[", "REVIEW", "]">> \o EmittedTexts(run, "review")[i]
    /\ BuffersAreConcatenations(run)

\* C12 witness: the draft model streamed two different fragments, the
\* critique and the revision were called, and the run has ended.
C12_Witness ==
    /\ run.pc.step = "done"
    /\ Len(EmittedTexts(run, "draft")) = 2
    /\ EmittedTexts(run, "draft")[1] # EmittedTexts(run, "draft")[2]
    /\ Len(Calls(run)) = 3

-----------------------------------------------------------------------------
(* script_generator.py: the parser and the table renderer called on their   *)
(* own.  One behaviour is one input: a text handed to parse_script_output,  *)
(* or a ScriptOutput handed to to_markdown_table and the table it returns   *)
(* handed back to parse_script_output.                                      *)

MaxLines == 3
MaxRows == 2

\* "\n".join(lines)
RECURSIVE JoinLines(_)
JoinLines(lines) ==
    IF lines = <<>> THEN <<>>
    ELSE IF Len(lines) = 1 THEN lines[1]
    ELSE lines[1] \o <<"\n">> \o JoinLines(Tail(lines))

\* f"| {storyboard} | {voiceover} | {design} |"
TableRow(storyboard, voiceover, design) ==
    <<"|", " ">> \o storyboard \o <<" ", "|", " ">> \o voiceover
        \o <<" ", "|", " ">> \o design \o <<" ", "|">>

\* to_markdown_table without its header line.
ToMarkdownTableWithoutHeader(output) ==
    IF ~IsValid(output) THEN output.raw_content
    ELSE JoinLines(
        << <<"|", "-", "-", "-", "-", "-", "-",
             "|", "-", "-", "-", "-", "-", "-",
             "|", "-", "-", "-", "-", "-", "-", "-", "-", "-", "-", "|">> >>
        \o [i \in 1..Len(output.storyboard) |->
               TableRow(output.storyboard[i], output.voiceover[i],
                        output.design_intent[i])])

\* ScriptOutput.to_markdown_table
ToMarkdownTable(output) ==
    IF ~IsValid(output) THEN output.raw_content
    ELSE JoinLines(
        << TableRow(<<"fenjing">>, <<"koubo">>, <<"shejiyitu">>),
           <<"|", "-", "-", "-", "-", "-", "-",
             "|", "-", "-", "-", "-", "-", "-",
             "|", "-", "-", "-", "-", "-", "-", "-", "-", "-", "-", "|">> >>
        \o [i \in 1..Len(output.storyboard) |->
               TableRow(output.storyboard[i], output.voiceover[i],
                        output.design_intent[i])])

\* All sequences over S of length lo..hi.
SeqsOf(S, lo, hi) == UNION {[1..n -> S] : n \in lo..hi}

\* The lines the input texts are made of.
ParserLines ==
    LET KeywordHeader == <<"|", "fenjing", "|", "koubo", "|", "shejiyitu", "|">>
        SwappedHeader == <<"|", "koubo", "|", "fenjing", "|", "shejiyitu", "|">>
        SeparatorLine == <<"|", "-", "|", "-", "|", "-", "|">>
        PlainRow == <<"|", "a", "|", "b", "|", "c", "|">>
        MarkupRow == <<"|", "a", "<br>", "b", "|", "<p>", "b", "</p>", "|",
                       "c", "<BR>", "a", "|">>
        TwoColumnRow == <<"|", "a", "|", "b", "|">>
        SlashRow == <<"a", "/", "b", "<br>", "c", "/", "c">>
        TagLine == <<"[", "fenjing", "]", "a", "[", "koubo", "]", "b", "<br>",
                     "c", "[", "shejiyitu", "]", "c">>
        NumberedLine == <<"1", ".", "fenjing", ":", "a", "<br>", "b", " ",
                          "koubo", ":", "b", " ", "shejiyitu", ":", "c">>
        Prose == <<"a", " ", "b">>
        Blank == <<" ">>
    IN {KeywordHeader, SwappedHeader, SeparatorLine, PlainRow, MarkupRow,
        TwoColumnRow, SlashRow, TagLine, NumberedLine, Prose, Blank}

\* The header of a table that names no role.
PlainHeader == <<"|", "x", "|", "y", "|", "z", "|">>

\* Three-column tables with a header that names no role, with or without a
\* separator line under it, and MaxRows rows at most.
PlainTables ==
    LET SeparatorLine == <<"|", "-", "|", "-", "|", "-", "|">>
        Rows == {<<"|", "a", "|", "b", "|", "c", "|">>,
                 <<"|", " ", "b", " ", "|", " ", "a", " ", "|", " ", "b", " ", "|">>}
    IN {JoinLines(head \o rows) :
           head \in {<<PlainHeader>>, <<PlainHeader, SeparatorLine>>},
           rows \in SeqsOf(Rows, 1, MaxRows)}

\* The texts handed to parse_script_output.
Texts ==
    {<<>>} \cup PlainTables
        \cup {JoinLines(lines) : lines \in SeqsOf(ParserLines, 1, MaxLines)}

\* The cells of the ScriptOutputs handed to to_markdown_table.
RenderCells ==
    {<<"a">>, <<"b", " ", "c">>, <<"koubo">>, <<"a", ";", "b">>,
     <<" ", "a">>, <<";", "a">>, <<"a", ";">>, <<"a", ";", ";", "b">>, <<"-">>,
     <<" ">>, <<"a", "\n", "b">>, <<"a", "|", "b">>, <<"a", "<br>", "b">>, <<>>}

\* The rows of those ScriptOutputs: one cell of interest in the first column
\* next to plain cells, some of them in the last column too, and a row of
\* dashes.
RenderRows ==
    {<<c, <<"b">>, <<"c">>>> : c \in RenderCells}
        \cup {<<<<"a">>, <<"b">>, c>> : c \in {<<"a", " ">>, <<"a", ";">>, <<>>}}
        \cup {<<<<"-">>, <<"-">>, <<"-">>>>}

\* The ScriptOutput of a sequence of rows.
OutputOfRows(rows) ==
    ScriptOutput([i \in 1..Len(rows) |-> rows[i][1]],
                 [i \in 1..Len(rows) |-> rows[i][2]],
                 [i \in 1..Len(rows) |-> rows[i][3]], <<"r">>)

\* The ScriptOutputs handed to to_markdown_table, one of them not valid.
Results ==
    {OutputOfRows(rows) : rows \in SeqsOf(RenderRows, 1, MaxRows)}
        \cup {ScriptOutput(<< <<"a">> >>, <<>>, <<>>, <<"r">>)}

ParseInit ==
    /\ RagInit
    /\ ~use_faiss
    /\ emb_config = "no_embedding_model"
    /\ GenIdle
    /\ parsing \in {[op |-> "text", raw_script |-> t] : t \in Texts}
                   \cup {[op |-> "result", result |-> r] : r \in Results}
    /\ KbIdle

(* parse_script_output(raw_script) *)
Parse ==
    /\ parsing.op = "text"
    /\ parsing' = [op |-> "parsed", raw_script |-> parsing.raw_script,
                   output |-> ParseScriptOutput(parsing.raw_script)]
    /\ UNCHANGED <<rag_vars, gen_vars, kb_vars>>

(* result.to_markdown_table() *)
Render ==
    /\ parsing.op = "result"
    /\ parsing' = [op |-> "rendered", result |-> parsing.result,
                   table |-> ToMarkdownTable(parsing.result)]
    /\ UNCHANGED <<rag_vars, gen_vars, kb_vars>>

(* parse_script_output(table) on the table just rendered *)
Reparse ==
    /\ parsing.op = "rendered"
    /\ parsing' = [op |-> "reparsed", result |-> parsing.result,
                   table |-> parsing.table,
                   output |-> ParseScriptOutput(parsing.table)]
    /\ UNCHANGED <<rag_vars, gen_vars, kb_vars>>

ParseNext == Parse \/ Render \/ Reparse

SpecParse == ParseInit /\ [][ParseNext]_vars

-----------------------------------------------------------------------------
(* Claims about the parser.                                                 *)

\* The three sequences of an output are non-empty and of equal length.
WellShaped(o) ==
    /\ Len(o.storyboard) > 0
    /\ Len(o.storyboard) = Len(o.voiceover)
    /\ Len(o.voiceover) = Len(o.design_intent)

AllEmpty(o) == o.storyboard = <<>> /\ o.voiceover = <<>> /\ o.design_intent = <<>>

\* C13: for every input text parse_script_output returns a result that is
\* either valid (three non-empty sequences of equal length) or has its three
\* sequences empty, and whose raw text is the input.
C13_ParseIsTotalAndShaped ==
    parsing.op = "parsed" =>
        /\ WellShaped(parsing.output) \/ AllEmpty(parsing.output)
        /\ parsing.output.raw_content = parsing.raw_script

\* A text with a blank first line was parsed into a valid result.
C13_Witness ==
    /\ parsing.op = "parsed"
    /\ WellShaped(parsing.output)
    /\ Strip(parsing.raw_script) # parsing.raw_script

\* A text with content was parsed into nothing.
C13_WitnessUnparsed ==
    /\ parsing.op = "parsed"
    /\ AllEmpty(parsing.output)
    /\ Strip(parsing.raw_script) # <<>>

\* The results of the four strategies on a text, in the order they are tried.
Strategies(text) ==
    <<ParseMarkdownTable(text), ParseDelimiterFormat(text),
      ParseTagFormat(text), ParseNumberedFormat(text)>>

\* The strategy gave a result and the result is valid.
Yields(result) == ~result.none /\ WellShaped(result.value)

\* C14: the result is that of the first of the table, delimiter, tag and
\* numbered strategies that yields a valid result, never that of a later one.
C14_FirstValidStrategyWins ==
    parsing.op = "parsed" /\ Strip(parsing.raw_script) # <<>> =>
        LET results == Strategies(parsing.raw_script)
        IN \A i \in 1..4 :
               (/\ Yields(results[i])
                /\ \A j \in 1..(i - 1) : ~Yields(results[j]))
                   => parsing.output = results[i].value

\* The table and the delimiter strategies both yield a valid result on the
\* text parsed, and not the same one.
C14_Witness ==
    /\ parsing.op = "parsed"
    /\ Yields(Strategies(parsing.raw_script)[1])
    /\ Yields(Strategies(parsing.raw_script)[2])
    /\ Strategies(parsing.raw_script)[1].value # Strategies(parsing.raw_script)[2].value
    /\ parsing.output = Strategies(parsing.raw_script)[1].value

\* The data rows of a table under PlainHeader: its lines but the header and
\* the separator line, each as its cells.
DataRowsOf(text) ==
    LET IsData(line) == line # PlainHeader /\ ~IsSeparatorLine(line)
        rows == SelectSeq(Lines(text), IsData)
    IN [i \in 1..Len(rows) |-> Cells(rows[i], "|")]

\* The rows of an output: scene, voice-line and rationale side by side.
RowsOf(o) ==
    {<<o.storyboard[k], o.voiceover[k], o.design_intent[k]>> :
        k \in 1..Len(o.storyboard)}

\* C15: a three-column pipe table whose header names no role parses to a
\* valid result in which each data row of the table is a row of the result,
\* first cell as scene, second as voice-line, third as rationale.
C15_PlainTableIsPositional ==
    parsing.op = "parsed" /\ parsing.raw_script \in PlainTables =>
        /\ WellShaped(parsing.output)
        /\ \A i \in 1..Len(DataRowsOf(parsing.raw_script)) :
               DataRowsOf(parsing.raw_script)[i] \in RowsOf(parsing.output)

\* The cells of an output, all three columns.
CellsOf(o) ==
    {o.storyboard[k] : k \in 1..Len(o.storyboard)}
        \cup {o.voiceover[k] : k \in 1..Len(o.voiceover)}
        \cup {o.design_intent[k] : k \in 1..Len(o.design_intent)}

MarkupTags == {BrTag} \cup OtherTags

\* Well-formed as the claim has it: not empty, no column separator, no markup.
WellFormedCell(c) ==
    /\ c # <<>>
    /\ \A i \in 1..Len(c) : c[i] # "|" /\ c[i] \notin MarkupTags

\* What a cell needs besides to come back from the table as it went in: no
\* whitespace at its ends, no line break, and no separator token at its ends
\* or next to another one.
CleanCell(c) ==
    /\ WellFormedCell(c)
    /\ Strip(c) = c
    /\ \A i \in 1..Len(c) : c[i] # "\n"
    /\ c[1] # Semicolon /\ c[Len(c)] # Semicolon
    /\ \A i \in 1..(Len(c) - 1) : ~(c[i] = Semicolon /\ c[i + 1] = Semicolon)

\* The row reads as a separator line: nothing in it but '-', ':' and blanks.
RuleRow(o, k) ==
    \A c \in {o.storyboard[k], o.voiceover[k], o.design_intent[k]} :
        \A i \in 1..Len(c) : c[i] \in {"-", ":"} \cup Whitespace

SameColumns(o, r) ==
    /\ o.storyboard = r.storyboard
    /\ o.voiceover = r.voiceover
    /\ o.design_intent = r.design_intent

BreakTags == {BrTag, "<BR>"}

\* The text with each line-break tag replaced by the separator token and
\* every other tag taken out.
BreaksAsSeparators(text) ==
    LET NotATag(x) == x \notin MarkupTags \/ x \in BreakTags
        kept == SelectSeq(text, NotATag)
    IN [i \in 1..Len(kept) |-> IF kept[i] \in BreakTags THEN Semicolon ELSE kept[i]]

\* C17: no cell of a parsed result holds a markup tag, and a line-break tag
\* counts as the separator token: the cells are those of the same text with
\* the separator token written where the line-break tags were.
C17_BreaksBecomeSeparators ==
    parsing.op = "parsed" =>
        /\ \A c \in CellsOf(parsing.output) :
               \A i \in 1..Len(c) : c[i] \notin MarkupTags
        /\ SameColumns(parsing.output,
                       ParseScriptOutput(BreaksAsSeparators(parsing.raw_script)))

-----------------------------------------------------------------------------
(* rag_system.py: the vector path on a library of up to MaxVecAdds records  *)
(* of one category, under one embedding configuration of dimension 2.       *)

MaxVecAdds == 3

\* The contents added: three texts with three different vectors.
VecContents == Contents \cup { <<"b">> }

VecInit ==
    /\ RagInit
    /\ use_faiss
    /\ emb_config = "dim2"
    /\ GenIdle
    /\ parsing = NoParse
    /\ KbIdle

VecNext ==
    \/ \E content \in VecContents, outcome \in ProviderOutcomes :
           AddScriptWithin(MaxVecAdds, content, CatSLG, outcome)
               /\ UNCHANGED <<gen_vars, parse_vars, kb_vars>>
    \/ \E doc_id \in 1..MaxVecAdds :
           DeleteScript(doc_id) /\ UNCHANGED <<gen_vars, parse_vars, kb_vars>>
    \/ \E query \in Queries, top_k \in 1..MaxVecAdds, outcome \in ProviderOutcomes :
           Search(query, CatSLG, top_k, outcome) /\ UNCHANGED <<gen_vars, parse_vars, kb_vars>>

SpecVec == VecInit /\ [][VecNext]_vars

\* The vector a record was indexed under: that of its content.
OwnVector(record) == GetTextEmbedding(record.content, emb_config, "vector").vec

\* The query vector of the last search.
QueryVector == GetTextEmbedding(last.query, emb_config, last.outcome).vec

\* C18: the vector search of a category with count indexed vectors returns
\* at most min(top_k, count) records, in ascending order of the L2 distance
\* between the query vector and each returned record's own vector.
C18_NearestFirstByOwnVector ==
    last.op = "search" /\ last.vector # <<>> =>
        /\ Len(last.vector) <= Min(last.top_k, NTotal(faiss_indices[last.category]))
        /\ \A i, j \in 1..Len(last.vector) :
               i < j => SqDist(OwnVector(last.vector[i]), QueryVector)
                            <= SqDist(OwnVector(last.vector[j]), QueryVector)

\* The number of records the vector search returns (holds; the order does not).
ReturnsAtMostTopKOrCount ==
    last.op = "search" /\ last.vector # <<>> =>
        Len(last.vector) <= Min(last.top_k, NTotal(faiss_indices[last.category]))

-----------------------------------------------------------------------------
(* Claims about the two searches of RAGSystem.                              *)

\* The category of the last search has no vector: no index, or an empty one.
SearchedEmptyIndex ==
    /\ last.op = "search"
    /\ \/ last.category \notin DOMAIN faiss_indices
       \/ Len(faiss_indices[last.category].vecs) = 0

\* C19: the vector search of a category that holds no vector returns the
\* empty list and raises nothing, whether the query could be embedded or not.
C19_EmptyIndexGivesEmptyList ==
    SearchedEmptyIndex => last.vector = <<>> /\ ~last.raised

\* An empty index was searched with FAISS on and the query could not be
\* embedded.
C19_Witness ==
    /\ SearchedEmptyIndex
    /\ use_faiss
    /\ last.category \in DOMAIN faiss_indices
    /\ ~GetTextEmbedding(last.query, emb_config, last.outcome).ok
    /\ last.vector = <<>>

\* An empty index was searched with FAISS on and the query was embedded.
C19_WitnessEmbedded ==
    /\ SearchedEmptyIndex
    /\ use_faiss
    /\ last.category \in DOMAIN faiss_indices
    /\ GetTextEmbedding(last.query, emb_config, last.outcome).ok
    /\ last.vector = <<>>

\* The terms of a query: the maximal runs without whitespace of the query in
\* lower case.
TermsOf(query) ==
    LET q == Lower(query)
        Run(i, j) == /\ \A x \in i..j : q[x] \notin Whitespace
                     /\ (i = 1 \/ q[i - 1] \in Whitespace)
                     /\ (j = Len(q) \/ q[j + 1] \in Whitespace)
    IN {SubSeq(q, p[1], p[2]) :
           p \in {r \in (1..Len(q)) \X (1..Len(q)) : r[1] <= r[2] /\ Run(r[1], r[2])}}

\* How many terms of the query occur in the content in lower case.
Hits(query, content) ==
    LET c == Lower(content)
        Occurs(t) == \E i \in 1..(Len(c) - Len(t) + 1) : SubSeq(c, i, i + Len(t) - 1) = t
    IN Cardinality({t \in TermsOf(query) : Occurs(t)})

\* The last search answered with the keyword fallback.
AnsweredByFallback ==
    /\ last.op = "search"
    /\ ~use_faiss \/ last.vector = <<>>

\* The records of the searched category with at least one term of the query.
Matching == {f \in ScriptsOf(files, last.category) : Hits(last.query, f.content) > 0}

\* C20: the keyword fallback returns records of the category that hold at
\* least one term of the query, none twice, the min(top_k, number of such
\* records) of them with the most terms, in non-increasing order of the
\* number of terms; a record with no term of the query is never returned.
C20_FallbackRanksByTerms ==
    AnsweredByFallback =>
        /\ \A i \in 1..Len(last.result) : last.result[i] \in Matching
        /\ \A i, j \in 1..Len(last.result) : i < j =>
               /\ last.result[i] # last.result[j]
               /\ Hits(last.query, last.result[i].content)
                      >= Hits(last.query, last.result[j].content)
        /\ Len(last.result) = Min(last.top_k, Cardinality(Matching))
        /\ \A f \in Matching : \A i \in 1..Len(last.result) :
               f \in {last.result[k] : k \in 1..Len(last.result)}
                   \/ Hits(last.query, last.result[i].content)
                          >= Hits(last.query, f.content)

\* Two records in the category, one with the term of the query and one
\* without, room for both: the fallback returned the first only.
C20_Witness ==
    /\ AnsweredByFallback
    /\ last.top_k = 2
    /\ Cardinality(ScriptsOf(files, last.category)) = 2
    /\ Cardinality(Matching) = 1
    /\ Len(last.result) = 1

\* Two records with different numbers of terms, listed in either order, came
\* back with the richer one first.
C20_WitnessOrdered ==
    /\ AnsweredByFallback
    /\ Len(last.result) = 2
    /\ Hits(last.query, last.result[1].content) > Hits(last.query, last.result[2].content)
    /\ last.result[1].id > last.result[2].id

-----------------------------------------------------------------------------
(* Claims about the records of RAGSystem.                                   *)

\* The ids of the records created so far: those stored and those deleted.
IssuedIds == {f.id : f \in files} \cup deleted

\* get_script_count(category)
ScriptCount(store, category) == Cardinality(ScriptsOf(store, category))

\* The step is a call of add_script.
IsAdd == last'.op = "add" /\ <<last, files>>' # <<last, files>>

IsAddWithoutEmbedding ==
    /\ IsAdd
    /\ use_faiss
    /\ ~GetTextEmbedding(last'.content, emb_config, last'.outcome).ok

\* The stored records that were added under FAISS without getting a vector.
Unindexed == {f \in files : use_faiss /\ f.id \notin DOMAIN rec_era}

\* The records of the last search's result.
Returned == {last.result[k] : k \in 1..Len(last.result)}

\* The last search had room for every record with a term of the query.
RoomForAll == last.op = "search" /\ last.top_k >= Cardinality(Matching)

IsDelete == last'.op = "delete" /\ <<last, files>>' # <<last, files>>

\* The list without the entries of the id, the others in their order.
WithoutId(metadata_list, doc_id) ==
    LET Other(item) == item.id # doc_id
    IN SelectSeq(metadata_list, Other)

-----------------------------------------------------------------------------
(* rag_system.py: the knowledge base as a whole -- a new RAGSystem on the    *)
(* directories of an earlier one, clear_knowledge_base,                     *)
(* export_knowledge_base and import_knowledge_base.                         *)

MaxKbAdds == 2

\* The categories whose .faiss file and _metadata.pkl file both exist.
Persisted(disk_i, disk_m) == DOMAIN disk_i \cap DOMAIN disk_m

\* RAGSystem._init_faiss: for each of self._default_categories, the pair is
\* loaded from disk when both files exist and is a fresh empty pair otherwise;
\* the dictionaries are not emptied first, so what they hold for any other
\* category stays.  `loaded` is what the files hold, `fresh` the empty value.
InitFaiss(mem, disk_i, disk_m, loaded, fresh) ==
    [c \in DOMAIN mem \cup DefaultCategories |->
        IF c \in DefaultCategories
        THEN IF c \in Persisted(disk_i, disk_m) THEN loaded[c] ELSE fresh
        ELSE mem[c]]

(* RAGSystem.__init__ on the directories an earlier instance wrote *)
Restart ==
    /\ embedding_dim' = InitialEmbeddingDim
    /\ faiss_indices' = IF use_faiss
                        THEN InitFaiss(EmptyDict, disk_indices, disk_metadata,
                                       disk_indices, EmptyIndex(InitialEmbeddingDim))
                        ELSE EmptyDict
    /\ faiss_metadata' = IF use_faiss
                         THEN InitFaiss(EmptyDict, disk_indices, disk_metadata,
                                        disk_metadata, <<>>)
                         ELSE EmptyDict
    /\ last' = [op |-> "init"]
    /\ UNCHANGED <<use_faiss, emb_config, disk_indices, disk_metadata, files,
                   next_id, deleted, era, rec_era>>

(* RAGSystem.clear_knowledge_base *)
ClearKnowledgeBase ==
    /\ files' = {}
    /\ disk_indices' = EmptyDict
    /\ disk_metadata' = EmptyDict
    /\ faiss_indices' = IF use_faiss
                        THEN InitFaiss(faiss_indices, EmptyDict, EmptyDict,
                                       EmptyDict, EmptyIndex(embedding_dim))
                        ELSE faiss_indices
    /\ faiss_metadata' = IF use_faiss
                         THEN InitFaiss(faiss_metadata, EmptyDict, EmptyDict,
                                        EmptyDict, <<>>)
                         ELSE faiss_metadata
    /\ last' = [op |-> "clear", result |-> TRUE]
    /\ UNCHANGED <<use_faiss, emb_config, embedding_dim, next_id, deleted, era, rec_era>>

\* The zip file of export_knowledge_base: the files below scripts_path and the
\* files below vector_db_path.  A zip holds files only, so a tree without any
\* file is not in it.
Archive(store, disk_i, disk_m) ==
    [written |-> TRUE, scripts |-> store, indices |-> disk_i, metadata |-> disk_m]

HasScripts(a) == a.scripts # {}
HasVectorDb(a) == DOMAIN a.indices \cup DOMAIN a.metadata # {}

(* RAGSystem.export_knowledge_base *)
ExportKnowledgeBase ==
    /\ archive' = Archive(files, disk_indices, disk_metadata)
    /\ last' = [op |-> "export", result |-> TRUE]
    /\ UNCHANGED <<use_faiss, emb_config, embedding_dim, faiss_indices, faiss_metadata,
                   disk_indices, disk_metadata, files, next_id, deleted, era, rec_era>>

\* What import_knowledge_base is given: a path without a file, a file that is
\* no zip, or the archive of the last export.
ImportSources == {"missing", "not_zip", "archive"}

\* The step of import_knowledge_base at which the file system raises, if any:
\* the extraction, the move of scripts_path to its backup, the move of
\* vector_db_path to its backup, the copy of either imported tree, or the
\* removal of either backup or of the extracted tree.
ImportFailures == {"none", "extract", "backup_scripts", "backup_vector",
                   "copy_scripts", "copy_vector", "drop_scripts_backup",
                   "drop_vector_backup", "drop_temp"}

\* The steps after both backups were made: the inner try of
\* import_knowledge_base, whose handler restores the backups.
InsideSwap == {"copy_scripts", "copy_vector", "drop_scripts_backup",
               "drop_vector_backup", "drop_temp"}

\* The record files a store holds once the imported tree replaced its own.
ImportedScriptsMerged(store, a) == store \cup a.scripts

\* shutil.copytree of the imported scripts tree into the emptied scripts_path.
ImportedScripts(store, a) == a.scripts

\* Does import_knowledge_base get as far as touching the directories?
ImportProceeds(source, failure) ==
    /\ source = "archive"
    /\ archive.written
    /\ failure # "extract"
    /\ HasScripts(archive) \/ HasVectorDb(archive)
    /\ failure # "backup_scripts"

\* The record files after import_knowledge_base.  A failure inside the swap
\* moves the backup back if it still exists: it was removed by then when the
\* failure is the removal of the other backup or of the extracted tree (a
\* removal that fails is taken to fail before it removed anything, and the
\* second removal of the extracted tree, in the outer handler, to succeed).
\* The move of vector_db_path to its backup is outside the inner try, and
\* nothing moves the scripts backup back when it fails.
ScriptsAfterImport(store, a, failure) ==
    CASE failure = "none" -> ImportedScripts(store, a)
      [] failure \in {"copy_scripts", "copy_vector", "drop_scripts_backup"} -> store
      [] OTHER -> {}

\* The artifacts below vector_db_path after import_knowledge_base.
VectorDbAfterImport(disk, imported, failure) ==
    CASE failure = "none" -> imported
      [] failure = "drop_temp" -> EmptyDict
      [] OTHER -> disk

(* RAGSystem.import_knowledge_base *)
ImportKnowledgeBase(source, failure) ==
    /\ IF ImportProceeds(source, failure)
       THEN /\ files' = ScriptsAfterImport(files, archive, failure)
            /\ disk_indices' = VectorDbAfterImport(disk_indices, archive.indices, failure)
            /\ disk_metadata' = VectorDbAfterImport(disk_metadata, archive.metadata, failure)
            /\ IF use_faiss /\ failure \in InsideSwap \cup {"none"}
               THEN /\ faiss_indices' = InitFaiss(faiss_indices, disk_indices', disk_metadata',
                                                  disk_indices', EmptyIndex(embedding_dim))
                    /\ faiss_metadata' = InitFaiss(faiss_metadata, disk_indices', disk_metadata',
                                                   disk_metadata', <<>>)
               ELSE UNCHANGED <<faiss_indices, faiss_metadata>>
       ELSE UNCHANGED <<files, disk_indices, disk_metadata, faiss_indices, faiss_metadata>>
    /\ last' = [op |-> "import", source |-> source, failure |-> failure,
                result |-> ImportProceeds(source, failure) /\ failure = "none"]
    /\ UNCHANGED <<use_faiss, emb_config, embedding_dim, next_id, deleted, era, rec_era>>

\* What self._api_manager.chat returns to auto_ingest_script: a failed call,
\* or a response text: empty, no JSON at all, or a JSON value, bare or in a
\* ``` block.  The JSON value is an array, or an object whose "category" is a
\* category name, is null, or is absent.
JsonValues ==
    {[type |-> "array"],
     [type |-> "object", field |-> "null"],
     [type |-> "object", field |-> "absent"]} \cup
    {[type |-> "object", field |-> "string", category |-> c] : c \in Categories}

ChatResponses ==
    {[ok |-> FALSE], [ok |-> TRUE, kind |-> "empty"], [ok |-> TRUE, kind |-> "text"]} \cup
    {[ok |-> TRUE, kind |-> k, value |-> v] : k \in {"json", "fenced"}, v \in JsonValues}

\* extract_json_from_response: json.loads of the text, then of the first
\* ```json block, then of the first ``` block.
ExtractJsonFromResponse(response) ==
    IF response.kind \in {"json", "fenced"}
    THEN [none |-> FALSE, value |-> response.value]
    ELSE [none |-> TRUE]

\* EnhancedScriptMetadata.from_dict: data.get("category", default); the
\* default is a category outside the default list, and a null stays None.
CategoryFromDict(data) ==
    CASE data.field = "absent" -> [named |-> TRUE, name |-> CatOther]
      [] data.field = "string" -> [named |-> TRUE, name |-> data.category]
      [] OTHER -> [named |-> FALSE]

\* parse_auto_tag_response.  data.get raises for a JSON value that is no
\* object, and nothing between it and the caller of auto_ingest_script
\* catches that.
ParseAutoTagResponse(response) ==
    IF response.kind = "empty" THEN [success |-> FALSE, raised |-> FALSE]
    ELSE LET parsed_data == ExtractJsonFromResponse(response)
         IN  IF parsed_data.none THEN [success |-> FALSE, raised |-> FALSE]
             ELSE IF parsed_data.value.type # "object"
                  THEN [success |-> FALSE, raised |-> TRUE]
                  ELSE [success |-> TRUE, raised |-> FALSE,
                        category |-> CategoryFromDict(parsed_data.value)]

\* The file <id>_enhanced.json that auto_ingest_script writes next to
\* <id>.json.  It matches *.json as well, so get_script_count counts it and
\* get_scripts_by_category loads it, as a record without content.
EnhancedFile(doc_id, category) ==
    [id |-> 0 - doc_id, content |-> <<>>, category |-> category]

\* auto_ingest_script has nothing to report or to write.
IngestNothing(raised) ==
    /\ last' = [op |-> "ingest", success |-> FALSE, raised |-> raised]
    /\ UNCHANGED <<use_faiss, emb_config, embedding_dim, faiss_indices, faiss_metadata,
                   disk_indices, disk_metadata, files, next_id, deleted, era, rec_era>>

(* RAGSystem.auto_ingest_script; `manager` is whether self._api_manager is *)
(* set, `enhanced` whether the write of <id>_enhanced.json went through    *)
AutoIngestScript(raw_text, manager, response, outcome, enhanced) ==
    /\ next_id < MaxKbAdds
    /\ IF ~manager \/ Strip(raw_text) = <<>> \/ ~response.ok
       THEN IngestNothing(FALSE)
       ELSE LET parsed == ParseAutoTagResponse(response)
            IN  IF ~parsed.success
                THEN IngestNothing(parsed.raised)
                ELSE IF ~parsed.category.named
                THEN \* _save_script_file: scripts_path / None raises and is
                     \* caught there; "save failed" is reported
                     IngestNothing(FALSE)
                ELSE
                LET category == parsed.category.name
                    doc_id == NewDocId(next_id)
                    script == [id |-> doc_id, content |-> raw_text, category |-> category]
                    r == AddToFaiss(faiss_indices, faiss_metadata, embedding_dim,
                                    script, emb_config, outcome)
                IN  /\ next_id' = doc_id
                    /\ files' = files \cup {script} \cup
                                (IF enhanced THEN {EnhancedFile(doc_id, category)} ELSE {})
                    /\ IF use_faiss
                       THEN /\ faiss_indices' = r.indices
                            /\ faiss_metadata' = r.metadata
                            /\ embedding_dim' = r.dim
                            /\ disk_indices' = IF r.added
                                               THEN SaveFaissIndex(disk_indices, r.indices, use_faiss, category)
                                               ELSE disk_indices
                            /\ disk_metadata' = IF r.added
                                                THEN SaveFaissIndex(disk_metadata, r.metadata, use_faiss, category)
                                                ELSE disk_metadata
                            /\ era' = IF r.created THEN [era EXCEPT ![category] = @ + 1] ELSE era
                            /\ rec_era' = IF r.added
                                          THEN Put(rec_era, doc_id, era'[category])
                                          ELSE rec_era
                       ELSE UNCHANGED <<faiss_indices, faiss_metadata, embedding_dim,
                                        disk_indices, disk_metadata, era, rec_era>>
                    /\ last' = [op |-> "ingest", success |-> TRUE, raised |-> FALSE,
                                id |-> doc_id, category |-> category,
                                raw_text |-> raw_text]
                    /\ UNCHANGED <<use_faiss, emb_config, deleted>>

\* A RAGSystem with FAISS and a two-dimensional embedding model, on empty
\* directories.
KbInit ==
    /\ RagInit
    /\ use_faiss
    /\ emb_config = "dim2"
    /\ GenIdle
    /\ parsing = NoParse
    /\ KbIdle

\* The query of the searches after a clear, an import or a new start.
KbQuery == <<"B", " ", "a">>

\* The content of the records of this knowledge base.
KbContents == {<<"a", " ", "b">>}

KbNext ==
    \/ \E content \in KbContents, category \in Categories, outcome \in ProviderOutcomes :
           /\ AddScriptWithin(MaxKbAdds, content, category, outcome)
           /\ UNCHANGED <<gen_vars, parse_vars, kb_vars>>
    \/ \E doc_id \in 1..MaxKbAdds :
           DeleteScript(doc_id) /\ UNCHANGED <<gen_vars, parse_vars, kb_vars>>
    \/ \E category \in Categories, outcome \in ProviderOutcomes :
           Search(KbQuery, category, MaxTopK, outcome) /\ UNCHANGED <<gen_vars, parse_vars, kb_vars>>
    \/ Restart /\ UNCHANGED <<gen_vars, parse_vars, kb_vars>>
    \/ ClearKnowledgeBase /\ UNCHANGED <<gen_vars, parse_vars, kb_vars>>
    \/ ExportKnowledgeBase /\ UNCHANGED <<gen_vars, parse_vars, peer>>
    \/ \E source \in ImportSources, failure \in ImportFailures :
           ImportKnowledgeBase(source, failure) /\ UNCHANGED <<gen_vars, parse_vars, kb_vars>>

SpecKb == KbInit /\ [][KbNext]_vars

\* The raw texts given to auto_ingest_script.
RawTexts == {<<"a", " ", "b">>, <<" ">>, <<>>}

\* A RAGSystem on empty directories, with or without FAISS.
IngestInit ==
    /\ RagInit
    /\ emb_config = "dim2"
    /\ GenIdle
    /\ parsing = NoParse
    /\ KbIdle

IngestNext ==
    \/ \E raw_text \in RawTexts, manager \in BOOLEAN, response \in ChatResponses,
          outcome \in ProviderOutcomes, enhanced \in BOOLEAN :
           /\ AutoIngestScript(raw_text, manager, response, outcome, enhanced)
           /\ UNCHANGED <<gen_vars, parse_vars, kb_vars>>
    \/ \E content \in Contents, category \in Categories, outcome \in ProviderOutcomes :
           /\ AddScriptWithin(MaxKbAdds, content, category, outcome)
           /\ UNCHANGED <<gen_vars, parse_vars, kb_vars>>
    \/ \E doc_id \in 1..MaxKbAdds :
           DeleteScript(doc_id) /\ UNCHANGED <<gen_vars, parse_vars, kb_vars>>

SpecIngest == IngestInit /\ [][IngestNext]_vars

-----------------------------------------------------------------------------
(* Claims about the knowledge base as a whole *)

\* The step is a call of import_knowledge_base that reports failure.
IsFailedImport == last'.op = "import" /\ ~last'.result

\* C24: whenever import_knowledge_base reports failure, the record file store
\* and the vector-index artifacts are the same as before the call.
C24_FailedImportRolledBack ==
    [][IsFailedImport => /\ files' = files
                         /\ disk_indices' = disk_indices
                         /\ disk_metadata' = disk_metadata]_vars

\* The part of C24 that the code keeps: an import that fails before the
\* backups (no file, no zip, no tree in the archive, extraction, first move)
\* or while it copies the imported trees leaves the files as they were.
FailedImportBeforeOrWhileCopying ==
    [][IsFailedImport /\ last'.failure \notin {"backup_vector", "drop_vector_backup", "drop_temp"}
          => /\ files' = files
             /\ disk_indices' = disk_indices
             /\ disk_metadata' = disk_metadata]_vars

\* The step is a call of import_knowledge_base that reports success.
IsImported == last'.op = "import" /\ last'.result

\* C25: after import_knowledge_base succeeds on an archive written by
\* export_knowledge_base, the importing store holds exactly the records of
\* the exported store: the same records, the same count in every category
\* and in total, whatever it held before.
C25_ImportHoldsExportedRecords ==
    [][IsImported => /\ files' = archive.scripts
                     /\ \A c \in Categories :
                            ScriptCount(files', c) = ScriptCount(archive.scripts, c)
                     /\ Cardinality(files') = Cardinality(archive.scripts)]_vars

\* An import succeeded on a store that held a record the exported store did
\* not hold: the first record is there, the second, never deleted, is gone.
C25_Witness ==
    /\ last.op = "import" /\ last.result
    /\ next_id = 2
    /\ deleted = {}
    /\ {f.id : f \in files} = {1}
    /\ files = archive.scripts

\* The step is a search that follows clear_knowledge_base directly.
IsSearchAfterClear == last.op = "clear" /\ last'.op = "search"

\* C26: after clear_knowledge_base succeeds the record count is 0 and search
\* returns no record, for every category, in the default list or not.
C26_ClearLeavesNothingToFind ==
    /\ [](last.op = "clear" => \A c \in Categories : ScriptCount(files, c) = 0)
    /\ [][IsSearchAfterClear => last'.result = <<>>]_vars

\* The part of C26 that the code keeps: the count is 0, and search returns no
\* record for a category of the default list.
ClearEmptiesCountAndDefaultCategories ==
    /\ [](last.op = "clear" => \A c \in Categories : ScriptCount(files, c) = 0)
    /\ [][IsSearchAfterClear /\ last'.category \in DefaultCategories
              => last'.result = <<>>]_vars

\* The new RAGSystem has in memory the pair persisted for category c.
Reloaded(c) ==
    /\ c \in DOMAIN faiss_indices \cap DOMAIN faiss_metadata
    /\ faiss_indices[c] = disk_indices[c]
    /\ faiss_metadata[c] = disk_metadata[c]

\* The step is the first add_script of a new RAGSystem, it indexes its
\* record, and the pair of its category was persisted before.
IsAddAfterInit(c) ==
    /\ last.op = "init"
    /\ IsAdd /\ last'.indexed /\ last'.category = c
    /\ c \in Persisted(disk_indices, disk_metadata)

\* The persisted pair of category c after the step begins with the pair
\* persisted before it.
KeepsPersisted(c) ==
    /\ IsPrefix(disk_indices[c].vecs, disk_indices'[c].vecs)
    /\ IsPrefix(disk_metadata[c], disk_metadata'[c])

\* C30: for every category, in the default list or not, a new RAGSystem on
\* the same directories has the persisted entries in the index that vector
\* search reads, and its next add to the category keeps them in the
\* persisted pair.
C30_PersistedPairSurvivesInit ==
    /\ [](last.op = "init" =>
             \A c \in Persisted(disk_indices, disk_metadata) : Reloaded(c))
    /\ [][\A c \in Categories : IsAddAfterInit(c) => KeepsPersisted(c)]_vars

\* The part of C30 that the code keeps: the same for the categories of the
\* default list.
DefaultCategoriesSurviveInit ==
    /\ [](last.op = "init" =>
             \A c \in Persisted(disk_indices, disk_metadata) \cap DefaultCategories :
                 Reloaded(c))
    /\ [][\A c \in DefaultCategories : IsAddAfterInit(c) => KeepsPersisted(c)]_vars

-----------------------------------------------------------------------------
(* Claims about auto_ingest_script *)

\* The step is a call of auto_ingest_script that reports success / that
\* reports failure or raises.
IsIngested == last'.op = "ingest" /\ last'.success
IsFailedIngest == last'.op = "ingest" /\ ~last'.success

\* What get_scripts_by_category(category) gains by the step.
Gained(category) == ScriptsOf(files', category) \ ScriptsOf(files, category)

\* A failed auto_ingest_script writes nothing to the file store or the index.
FailedIngestWritesNothing ==
    IsFailedIngest => UNCHANGED <<files, faiss_indices, faiss_metadata,
                                  disk_indices, disk_metadata>>

\* C29: a successful auto_ingest_script raises the record count of the
\* derived category by exactly 1 and get_scripts_by_category gains exactly
\* one record, whose content is the raw text; a failed one writes nothing to
\* the file store or the index.
C29_IngestCreatesOneRecord ==
    /\ [][IsIngested =>
             /\ ScriptCount(files', last'.category) = ScriptCount(files, last'.category) + 1
             /\ Cardinality(Gained(last'.category)) = 1
             /\ \A f \in Gained(last'.category) : f.content = last'.raw_text]_vars
    /\ [][FailedIngestWritesNothing]_vars

\* The part of C29 that the code keeps: a successful auto_ingest_script adds
\* the record with the raw text to the derived category and to no other,
\* leaves the records that were there, and adds at most one more file; a
\* failed one writes nothing.
IngestAddsTheRecord ==
    /\ [][IsIngested =>
             /\ \E f \in Gained(last'.category) :
                    f.id = last'.id /\ f.content = last'.raw_text
             /\ Cardinality(Gained(last'.category)) <= 2
             /\ files \subseteq files'
             /\ \A c \in Categories \ {last'.category} :
                    ScriptsOf(files', c) = ScriptsOf(files, c)]_vars
    /\ [][FailedIngestWritesNothing]_vars

-----------------------------------------------------------------------------
(* Claims about the pairing of vectors and records in the vector search *)

\* The ids of the adds that put a vector into the index, and the id of the
\* add that put the vector at position p: ids are issued in rising order and
\* every indexed add appends one vector to the one index of the library.
IndexedIds == DOMAIN rec_era
OwnerOf(p) == CHOOSE i \in IndexedIds : Cardinality({j \in IndexedIds : j <= i}) = p

\* Every vector of the index has its add (holds on the library of one
\* category and one embedding dimension).
EveryVectorHasItsAdd ==
    Cardinality(IndexedIds) = NTotal(faiss_indices[CatSLG])

\* The last vector search can have returned what it returned from the hit
\* positions s.
ReturnedFrom(s) == BuildResults(s, faiss_metadata[last.category]) = last.vector

\* The record returned for hit position p is the one added with the vector
\* at p: it has the id of that add and the vector at p is that of its content.
PairedAt(p) ==
    LET record == faiss_metadata[last.category][p]
    IN  /\ record.id = OwnerOf(p)
        /\ OwnVector(record) = faiss_indices[last.category].vecs[p]

\* The records of the last vector search are those added with the vectors
\* that matched.
ReturnsOwnersOfHits ==
    LET index == faiss_indices[last.category]
        n == Len(faiss_metadata[last.category])
    IN  \E s \in IndexSearch(index, QueryVector, Min(last.top_k, NTotal(index))) :
            /\ ReturnedFrom(s)
            /\ \A k \in 1..Len(s) : s[k] <= n => PairedAt(s[k])

\* C28: every record returned by vector search is the record that was added
\* together with the vector that matched, after any sequence of adds and
\* removes.
C28_HitReturnsItsOwnRecord ==
    last.op = "search" /\ last.vector # <<>> => ReturnsOwnersOfHits

\* The part of C28 that the code keeps: the same while no record was removed.
HitReturnsItsOwnRecordWithoutRemoves ==
    last.op = "search" /\ last.vector # <<>> /\ deleted = {} => ReturnsOwnersOfHits

-----------------------------------------------------------------------------
(* rag_system.py: two RAGSystem instances on the same directories.  The     *)
(* first is the one of the variables above and its calls are whole steps;   *)
(* of the second, `peer`, the two writes of _save_faiss_index are separate  *)
(* steps, so that a call of the first can fall between them.  Nothing in    *)
(* the code locks the files.                                                *)

MaxTwoAdds == 2

\* The memory of a second RAGSystem: its _faiss_indices, _faiss_metadata and
\* _embedding_dim, and the call it is in: none, or an add_script or
\* delete_script of record doc_id that wrote <category>.faiss and has
\* <category>_metadata.pkl still to write.
Peer(indices, metadata, dim, pending, doc_id, category) ==
    [running |-> TRUE, indices |-> indices, metadata |-> metadata, dim |-> dim,
     pending |-> pending, doc_id |-> doc_id, category |-> category]

(* RAGSystem.__init__ of the second instance *)
PeerStart ==
    /\ ~peer.running
    /\ peer' = Peer(InitFaiss(EmptyDict, disk_indices, disk_metadata,
                              disk_indices, EmptyIndex(InitialEmbeddingDim)),
                    InitFaiss(EmptyDict, disk_indices, disk_metadata,
                              disk_metadata, <<>>),
                    InitialEmbeddingDim, "none", 0, <<>>)
    /\ UNCHANGED <<rag_vars, archive>>

(* add_script of the second instance, up to faiss.write_index *)
PeerAddScript(content, category) ==
    /\ peer.running /\ peer.pending = "none"
    /\ next_id < MaxTwoAdds
    /\ LET doc_id == NewDocId(next_id)
           script == [id |-> doc_id, content |-> content, category |-> category]
           r == AddToFaiss(peer.indices, peer.metadata, peer.dim, script,
                           emb_config, "vector")
       IN  /\ next_id' = doc_id
           /\ files' = files \cup {script}
           /\ disk_indices' = SaveFaissIndex(disk_indices, r.indices, use_faiss, category)
           /\ peer' = Peer(r.indices, r.metadata, r.dim, "add", doc_id, category)
    /\ UNCHANGED <<use_faiss, emb_config, embedding_dim, faiss_indices, faiss_metadata,
                   disk_metadata, last, deleted, era, rec_era, archive>>

(* delete_script of the second instance for a record that is stored and  *)
(* whose category it has an index for, up to faiss.write_index           *)
PeerDeleteScript(doc_id) ==
    /\ peer.running /\ peer.pending = "none"
    /\ \E f \in files :
          /\ f.id = doc_id
          /\ f.category \in DOMAIN peer.indices
          /\ LET metadata == [peer.metadata EXCEPT ![f.category] =
                                  RemoveFromMetadata(@, doc_id)]
             IN  /\ disk_indices' = SaveFaissIndex(disk_indices, peer.indices,
                                                   use_faiss, f.category)
                 /\ peer' = Peer(peer.indices, metadata, peer.dim, "delete", doc_id, f.category)
    /\ UNCHANGED <<use_faiss, emb_config, embedding_dim, faiss_indices, faiss_metadata,
                   disk_metadata, files, next_id, last, deleted, era, rec_era, archive>>

(* the rest of the pending call: pickle.dump of the metadata list, and for *)
(* delete_script the removal of the record file                            *)
PeerFinish ==
    /\ peer.running /\ peer.pending # "none"
    /\ disk_metadata' = SaveFaissIndex(disk_metadata, peer.metadata, use_faiss, peer.category)
    /\ files' = IF peer.pending = "delete"
                THEN {f \in files : f.id # peer.doc_id}
                ELSE files
    /\ deleted' = IF peer.pending = "delete" THEN deleted \cup {peer.doc_id} ELSE deleted
    /\ peer' = [peer EXCEPT !.pending = "none"]
    /\ UNCHANGED <<use_faiss, emb_config, embedding_dim, faiss_indices, faiss_metadata,
                   disk_indices, next_id, last, era, rec_era, archive>>

\* A RAGSystem with FAISS and an embedding model on empty directories; the
\* second instance is started later.
TwoInit ==
    /\ RagInit
    /\ use_faiss
    /\ emb_config = "dim2"
    /\ GenIdle
    /\ parsing = NoParse
    /\ KbIdle

\* Adds and deletes of both instances on one category.
TwoNext ==
    \/ \E content \in KbContents :
           /\ AddScriptWithin(MaxTwoAdds, content, CatSLG, "vector")
           /\ UNCHANGED <<gen_vars, parse_vars, kb_vars>>
    \/ \E doc_id \in 1..MaxTwoAdds :
           DeleteScript(doc_id) /\ UNCHANGED <<gen_vars, parse_vars, kb_vars>>
    \/ PeerStart /\ UNCHANGED <<gen_vars, parse_vars>>
    \/ \E content \in KbContents :
           PeerAddScript(content, CatSLG) /\ UNCHANGED <<gen_vars, parse_vars>>
    \/ \E doc_id \in 1..MaxTwoAdds :
           PeerDeleteScript(doc_id) /\ UNCHANGED <<gen_vars, parse_vars>>
    \/ PeerFinish /\ UNCHANGED <<gen_vars, parse_vars>>

SpecTwo == TwoInit /\ [][TwoNext]_vars

-----------------------------------------------------------------------------
(* Claims about two instances on the same directories *)

\* No write of the second instance is under way.
NoWriteInFlight == ~peer.running \/ peer.pending = "none"

\* The persisted pair of category c is the pair one instance has in memory.
PairOfFirst(c) ==
    /\ c \in DOMAIN faiss_indices
    /\ disk_indices[c] = faiss_indices[c]
    /\ disk_metadata[c] = faiss_metadata[c]

PairOfPeer(c) ==
    /\ peer.running
    /\ c \in DOMAIN peer.indices
    /\ disk_indices[c] = peer.indices[c]
    /\ disk_metadata[c] = peer.metadata[c]

\* The persisted metadata list of the category has more entries than the
\* persisted structure has vectors: no instance ever has such a pair in
\* memory, since every entry is appended together with a vector.
LengthsDiffer(c) ==
    /\ c \in Persisted(disk_indices, disk_metadata)
    /\ Len(disk_metadata[c]) > NTotal(disk_indices[c])

\* A record that the first instance indexed and that nobody deleted has no
\* entry in the persisted metadata list of its category.
EntryLost(c) ==
    /\ c \in Persisted(disk_indices, disk_metadata)
    /\ \E f \in ScriptsOf(files, c) :
          /\ f.id \in DOMAIN rec_era
          /\ f.id # peer.doc_id
          /\ \A k \in 1..Len(disk_metadata[c]) : disk_metadata[c][k].id # f.id

\* C27: two instances on the same artifacts, without locking.  While the
\* first instance is alone, the persisted pair of a category is the pair it
\* has in memory, and every write of either instance replaces an artifact by
\* what the writer has in memory, without reading what is there; so there are
\* interleavings of adds and deletes on one category after which the
\* persisted pair is no pair any more (C27_Witness), or has lost an entry
\* (EntryLostBetweenInstances).
C27_WritesReplaceWithoutMerging ==
    /\ [](~peer.running =>
             \A c \in Persisted(disk_indices, disk_metadata) :
                 PairOfFirst(c) /\ ~LengthsDiffer(c))
    /\ [][\A c \in DOMAIN disk_indices' :
             /\ (c \notin DOMAIN disk_indices \/ disk_indices'[c] # disk_indices[c])
                    => disk_indices'[c] = faiss_indices'[c]
                       \/ (peer'.running /\ disk_indices'[c] = peer'.indices[c])]_vars
    /\ [][\A c \in DOMAIN disk_metadata' :
             /\ (c \notin DOMAIN disk_metadata \/ disk_metadata'[c] # disk_metadata[c])
                    => disk_metadata'[c] = faiss_metadata'[c]
                       \/ (peer'.running /\ disk_metadata'[c] = peer'.metadata[c])]_vars

\* With no write under way, the persisted pair of the category is the pair
\* of neither instance, and its metadata list is longer than its structure.
C27_Witness ==
    /\ NoWriteInFlight
    /\ peer.running
    /\ LengthsDiffer(CatSLG)
    /\ ~PairOfFirst(CatSLG)
    /\ ~PairOfPeer(CatSLG)

\* With no write under way, an entry written by the first instance is lost.
EntryLostBetweenInstances ==
    /\ NoWriteInFlight
    /\ peer.running
    /\ EntryLost(CatSLG)

====
